---- MODULE Spec2Model ----
(***************************************************************************)
(* A model of embeddr/raytracer-cpp: the threaded render driver            *)
(* (update_canvas and main), the canvas, the intersection search           *)
(* (calc_ray_shape_intersect) and the recursive tracer (trace_ray).        *)
(*                                                                         *)
(* Several specifications share the module:                                  *)
(*   Spec      the render driver: main, its worker threads and the canvas  *)
(*   FairSpec  Spec with the fairness the thread scheduler gives           *)
(*   ScanSpec  one call of calc_ray_shape_intersect, loop step by step     *)
(*   TraceSpec one top-level call of trace_ray, as an explicit call stack  *)
(*   LightSpec one call of compute_lighting, light by light                *)
(*   BlendSpec the color arithmetic of one trace_ray activation            *)
(*   RefractSpec one call of calc_refraction_vector                        *)
(*   ShapeSpec one ray against one shape under one ambient light           *)
(***************************************************************************)
EXTENDS Integers, Sequences, FiniteSets, TLC

\* ------------------------------------------------------------------ bounds
\* The canvas of the program is 800 x 600 with 8 threads; the model draws the
\* width, the height and the thread count from 0..MaxWidth, 0..MaxHeight and
\* 1..MaxThreads.
MaxWidth == 3
MaxHeight == 2
MaxThreads == 3
\* Render passes started by the space key, after the initial one.
MaxPasses == 3

\* kSceneCameras holds three cameras (src/src/scene.hpp).
NumCameras == 3

VARIABLES
    \* --- render driver (Spec)
    kCanvasWidth,       \* canvas width W
    kCanvasHeight,      \* canvas height H
    kNumThreads,        \* worker count N
    pc,                 \* position of the main thread
    retTo,              \* caller of the running update_canvas
    windowOpen,         \* window.isOpen()
    camera_iter,        \* index of the active camera in kSceneCameras
    space_pressed,      \* main's local of the running loop iteration
    space_pressed_prev, \* main's static
    segment,            \* update_canvas: threads spawned so far
    joined,             \* update_canvas: threads joined so far
    threads,            \* per worker: its state and loop variables
    image,              \* Canvas::image_  : pixel -> color
    texture,            \* Canvas::texture_: pixel -> color, what draw shows
    pass,               \* ghost: number of the pass in progress (or last)
    stamp,              \* ghost: pixel -> pass that last wrote it in image_
    texStamp,           \* ghost: the stamps the texture was loaded with
    log,                \* ghost: this pass's put_pixel calls, (x, y) -> workers
    shown,              \* ghost: the stamps of the frames drawn so far
    \* --- one call of calc_ray_shape_intersect (ScanSpec)
    find_closest,       \* the template parameter
    t_min,              \* the range of the call
    t_max,
    roots,              \* shape -> what its calc_ray_intersect(ray) returns
    scan,               \* the call's position and its locals
    evaluated,          \* ghost: the shapes whose calc_ray_intersect was called
    result,             \* what the call returned
    \* --- one top-level call of trace_ray (TraceSpec)
    materials,          \* shape -> its Material
    lighting,           \* what the geometry gives compute_lighting, per light
    stack,              \* the trace_ray activations, the caller first
    returned,           \* the color the top-level call returned, once it has
    last,               \* ghost: the activation that returned last
    \* --- one call of compute_lighting (LightSpec)
    light_in,           \* what the geometry gives the call, per light
    light_spec,         \* the parameter specularity
    light_k,            \* the loop's position in kSceneLights
    light_sum_so_far,   \* the local intensity
    added,              \* ghost: what each light added to intensity
    \* --- the color arithmetic of one trace_ray activation (BlendSpec)
    blend_in,           \* the material, the two recursive colors, the light
    blend_pc,           \* the activation's position
    blend_loc,          \* its locals
    blend_out,          \* what it returned
    \* --- one call of calc_refraction_vector (RefractSpec)
    refr_in,            \* the parameters incoming, normal, refractivity
    refr_pc,            \* the call's position
    refr_loc,           \* its locals
    refr_out,           \* what it returned
    \* --- one ray against one shape, lit by one ambient light (ShapeSpec)
    ray,                \* the ray: its point and its vector
    shape_object,       \* the shape
    lone_scene,         \* the range of the search, the light, the material
    shape_pc,           \* the position
    quadratic,          \* Sphere::calc_ray_intersect: a, b, c, discriminant
    intersect_points,   \* what calc_ray_intersect returned
    shape_intersect,    \* what the search returned
    shaded              \* the intersect point, the normal, the color returned

renderVars == <<kCanvasWidth, kCanvasHeight, kNumThreads, pc, retTo, windowOpen,
                camera_iter, space_pressed, space_pressed_prev, segment, joined,
                threads, image, texture, pass, stamp, texStamp, log, shown>>

scanVars == <<find_closest, t_min, t_max, roots, scan, evaluated, result>>

traceVars == <<materials, lighting, stack, returned, last>>

lightVars == <<light_in, light_spec, light_k, light_sum_so_far, added>>

blendVars == <<blend_in, blend_pc, blend_loc, blend_out>>

refractVars == <<refr_in, refr_pc, refr_loc, refr_out>>

shapeVars == <<ray, shape_object, lone_scene, shape_pc, quadratic, intersect_points,
               shape_intersect, shaded>>

vars == <<renderVars, scanVars, traceVars, lightVars, blendVars, refractVars,
          shapeVars>>

\* What a render action leaves alone, and what a step of the search does.
notRender == <<scanVars, traceVars, lightVars, blendVars, refractVars, shapeVars>>
notScan == <<renderVars, traceVars, lightVars, blendVars, refractVars, shapeVars>>
notTrace == <<renderVars, scanVars, lightVars, blendVars, refractVars, shapeVars>>
notLight == <<renderVars, scanVars, traceVars, blendVars, refractVars, shapeVars>>
notBlend == <<renderVars, scanVars, traceVars, lightVars, refractVars, shapeVars>>
notRefract == <<renderVars, scanVars, traceVars, lightVars, blendVars, shapeVars>>
notShape == <<renderVars, scanVars, traceVars, lightVars, blendVars, refractVars>>

\* ------------------------------------------------------------ update_cols
\* C++ integer division truncates; every operand here is non-negative, where
\* truncation and \div agree.
x_end_no_final(seg, num_segments, W) ==
    (seg + 1) * (W \div num_segments) - (W \div 2)

x_begin_overlap(seg, num_segments, W) ==
    IF seg = 0 THEN -(W \div 2)
    ELSE seg * (W \div num_segments) - (W \div 2) - 1

x_begin(seg, num_segments, W) ==
    seg * (W \div num_segments) - (W \div 2)

x_end(seg, num_segments, W) ==
    IF seg = num_segments - 1
    THEN W \div 2
    ELSE (seg + 1) * (W \div num_segments) - (W \div 2)

y_begin_one_up(H) == -(H \div 2) + 1

y_begin(H) == -(H \div 2)
y_end(H) == H \div 2

\* ------------------------------------------------------------------ canvas
Pixels == (0 .. kCanvasWidth - 1) \X (0 .. kCanvasHeight - 1)

\* Canvas::put_pixel: the image pixel that canvas coordinates (x, y) name.
put_pixel_no_offset(x, y) == <<(kCanvasWidth \div 2) + x, (kCanvasHeight \div 2) - y>>

put_pixel(x, y) == <<(kCanvasWidth \div 2) + x, (kCanvasHeight \div 2) - y - 1>>

\* The color trace_ray gives the ray through canvas point (x, y) of camera cam:
\* a function of the camera and the point, the scene being constant.
PixelColor(cam, x, y) == <<"traced", cam, x, y>>
Black == <<"black">>

Workers == 0 .. kNumThreads - 1
Coords == ((-(kCanvasWidth \div 2)) .. (kCanvasWidth \div 2) - 1)
              \X ((-(kCanvasHeight \div 2)) .. (kCanvasHeight \div 2) - 1)

\* ------------------------------------------------------------- the threads
NotStarted == [st |-> "none", seg |-> 0, x |-> 0, y |-> 0]

\* std::thread::join returns once the thread's function has returned.
join_returns_early(j) == TRUE

join_returns_when_started(j) == threads[j].st # "none"

join_returns(j) == threads[j].st = "done"

\* The end of the join loop over the thread array, after joining thread j.
join_loop_ends_after_first(j) == TRUE

join_loop_ends(j) == j + 1 = kNumThreads

\* The loop test of update_cols' column loop.
col_loop_continues_short(i) ==
    threads[i].x < x_end(threads[i].seg, kNumThreads, kCanvasWidth) - 1

col_loop_continues(i) ==
    threads[i].x < x_end(threads[i].seg, kNumThreads, kCanvasWidth)

RenderInit ==
    /\ kCanvasWidth \in 0 .. MaxWidth
    /\ kCanvasHeight \in 0 .. MaxHeight
    /\ kNumThreads \in 1 .. MaxThreads
    /\ pc = "start"
    /\ retTo = "first"
    /\ windowOpen = TRUE
    /\ camera_iter = 0
    /\ space_pressed = FALSE
    /\ space_pressed_prev = FALSE
    /\ segment = 0
    /\ joined = 0
    /\ threads = [i \in Workers |-> NotStarted]
    /\ image = [p \in Pixels |-> Black]
    /\ texture = [p \in Pixels |-> Black]
    /\ pass = 0
    /\ stamp = [p \in Pixels |-> 0]
    /\ texStamp = [p \in Pixels |-> 0]
    /\ log = <<>>
    /\ shown = <<>>

\* Entry of update_canvas(canvas, camera): the thread array is default
\* constructed and segment is 0.
EnterUpdateCanvas(ret) ==
    /\ pc' = "spawn"
    /\ retTo' = ret
    /\ segment' = 0
    /\ joined' = 0
    /\ threads' = [i \in Workers |-> NotStarted]
    /\ pass' = pass + 1
    /\ log' = <<>>

\* window.clear(); window.draw(canvas); window.display(): the sprite shows the
\* texture.
Draw == shown' = <<texStamp>>

\* main, up to the first update_canvas call.
MainStart ==
    /\ pc = "start"
    /\ NumCameras > 0
    /\ camera_iter' = 0
    /\ EnterUpdateCanvas("first")
    /\ UNCHANGED <<kCanvasWidth, kCanvasHeight, kNumThreads, windowOpen,
                   space_pressed, space_pressed_prev, image, texture, stamp,
                   texStamp, shown>>
    /\ UNCHANGED notRender

\* thread = std::thread{update_cols, segment++, kNumThreads}
Spawn ==
    /\ pc = "spawn"
    /\ segment < kNumThreads
    /\ threads' = [threads EXCEPT ![segment] =
                      [st |-> "run", seg |-> segment,
                       x |-> x_begin(segment, kNumThreads, kCanvasWidth),
                       y |-> y_begin(kCanvasHeight)]]
    /\ segment' = segment + 1
    /\ pc' = IF segment + 1 = kNumThreads THEN "join" ELSE "spawn"
    /\ UNCHANGED <<kCanvasWidth, kCanvasHeight, kNumThreads, retTo, windowOpen,
                   camera_iter, space_pressed, space_pressed_prev, joined, image,
                   texture, pass, stamp, texStamp, log, shown>>
    /\ UNCHANGED notRender

\* thread.join(), in array order
Join ==
    /\ pc = "join"
    /\ joined < kNumThreads
    /\ join_returns(joined)
    /\ threads' = [threads EXCEPT ![joined].st =
                      IF @ = "done" THEN "joined" ELSE @]
    /\ joined' = joined + 1
    /\ pc' = IF join_loop_ends(joined) THEN "snapshot" ELSE "join"
    /\ UNCHANGED <<kCanvasWidth, kCanvasHeight, kNumThreads, retTo, windowOpen,
                   camera_iter, space_pressed, space_pressed_prev, segment, image,
                   texture, pass, stamp, texStamp, log, shown>>
    /\ UNCHANGED notRender

\* canvas.snapshot(), and update_canvas returns to its caller
Snapshot ==
    /\ pc = "snapshot"
    /\ texture' = image
    /\ texStamp' = stamp
    /\ pc' = IF retTo = "first" THEN "loop" ELSE "after_update"
    /\ UNCHANGED <<kCanvasWidth, kCanvasHeight, kNumThreads, retTo, windowOpen,
                   camera_iter, space_pressed, space_pressed_prev, segment, joined,
                   threads, image, pass, stamp, log, shown>>
    /\ UNCHANGED notRender

\* One iteration of update_cols' inner loop: trace the ray, put the pixel.
WorkerPixel(i) ==
    /\ threads[i].st = "run"
    /\ col_loop_continues(i)
    /\ threads[i].y < y_end(kCanvasHeight)
    /\ LET x == threads[i].x
           y == threads[i].y
           c == <<x, y>>
       IN /\ image' = [image EXCEPT ![put_pixel(x, y)] = PixelColor(camera_iter, x, y)]
          /\ stamp' = [stamp EXCEPT ![put_pixel(x, y)] = pass]
          /\ log' = IF c \in DOMAIN log
                    THEN [log EXCEPT ![c] = Append(@, i)]
                    ELSE log @@ (c :> <<i>>)
          /\ threads' = [threads EXCEPT ![i].y = y + 1]
    /\ UNCHANGED <<kCanvasWidth, kCanvasHeight, kNumThreads, pc, retTo, windowOpen,
                   camera_iter, space_pressed, space_pressed_prev, segment, joined,
                   texture, pass, texStamp, shown>>
    /\ UNCHANGED notRender

\* WorkerNextCol without the x++ of the column loop.
WorkerNextColNoIncrement(i) ==
    /\ threads[i].st = "run"
    /\ col_loop_continues(i)
    /\ threads[i].y >= y_end(kCanvasHeight)
    /\ threads' = [threads EXCEPT ![i].y = y_begin(kCanvasHeight)]
    /\ UNCHANGED <<kCanvasWidth, kCanvasHeight, kNumThreads, pc, retTo, windowOpen,
                   camera_iter, space_pressed, space_pressed_prev, segment, joined,
                   image, texture, pass, stamp, texStamp, log, shown>>
    /\ UNCHANGED notRender

\* The inner loop ends: x++ and y starts over.
WorkerNextCol(i) ==
    /\ threads[i].st = "run"
    /\ col_loop_continues(i)
    /\ threads[i].y >= y_end(kCanvasHeight)
    /\ threads' = [threads EXCEPT ![i].x = @ + 1, ![i].y = y_begin(kCanvasHeight)]
    /\ UNCHANGED <<kCanvasWidth, kCanvasHeight, kNumThreads, pc, retTo, windowOpen,
                   camera_iter, space_pressed, space_pressed_prev, segment, joined,
                   image, texture, pass, stamp, texStamp, log, shown>>
    /\ UNCHANGED notRender

\* The column loop ends: update_cols returns and the thread terminates.
WorkerExit(i) ==
    /\ threads[i].st = "run"
    /\ ~col_loop_continues(i)
    /\ threads' = [threads EXCEPT ![i].st = "done"]
    /\ UNCHANGED <<kCanvasWidth, kCanvasHeight, kNumThreads, pc, retTo, windowOpen,
                   camera_iter, space_pressed, space_pressed_prev, segment, joined,
                   image, texture, pass, stamp, texStamp, log, shown>>
    /\ UNCHANGED notRender

\* ++camera_iter, and back to cbegin() from cend()
next_camera_no_wrap(iter) == iter + 1

next_camera(iter) == IF iter + 1 = NumCameras THEN 0 ELSE iter + 1

\* The test of main's if: space_pressed && !space_pressed_prev.
space_key_level(pressed, prev) == pressed

space_key_edge(pressed, prev) == pressed /\ ~prev

\* A loop iteration of main on which space is pressed and was not before: the
\* camera advances and update_canvas is called.
LoopKey ==
    /\ pc = "loop"
    /\ windowOpen
    /\ pass <= MaxPasses
    /\ \E closed \in BOOLEAN : windowOpen' = ~closed
    /\ \E pressed \in BOOLEAN :
          /\ space_key_edge(pressed, space_pressed_prev)
          /\ space_pressed' = pressed
    /\ camera_iter' = next_camera(camera_iter)
    /\ EnterUpdateCanvas("key")
    /\ UNCHANGED <<kCanvasWidth, kCanvasHeight, kNumThreads, space_pressed_prev,
                   image, texture, stamp, texStamp, shown>>
    /\ UNCHANGED notRender

\* A loop iteration of main with no new key press: only the draw.
LoopIdle ==
    /\ pc = "loop"
    /\ windowOpen
    /\ \E closed \in BOOLEAN : windowOpen' = ~closed
    /\ \E pressed \in BOOLEAN :
          /\ ~space_key_edge(pressed, space_pressed_prev)
          /\ space_pressed' = pressed
          /\ space_pressed_prev' = pressed
    /\ Draw
    /\ UNCHANGED <<kCanvasWidth, kCanvasHeight, kNumThreads, pc, retTo,
                   camera_iter, segment, joined, threads, image, texture, pass,
                   stamp, texStamp, log>>
    /\ UNCHANGED notRender

\* The rest of the iteration that called update_canvas.
AfterUpdate ==
    /\ pc = "after_update"
    /\ space_pressed_prev' = space_pressed
    /\ Draw
    /\ pc' = "loop"
    /\ UNCHANGED <<kCanvasWidth, kCanvasHeight, kNumThreads, retTo, windowOpen,
                   camera_iter, space_pressed, segment, joined, threads, image,
                   texture, pass, stamp, texStamp, log>>
    /\ UNCHANGED notRender

\* while (window.isOpen()) fails: main returns.
MainExit ==
    /\ pc = "loop"
    /\ ~windowOpen
    /\ pc' = "exit"
    /\ UNCHANGED <<kCanvasWidth, kCanvasHeight, kNumThreads, retTo, windowOpen,
                   camera_iter, space_pressed, space_pressed_prev, segment, joined,
                   threads, image, texture, pass, stamp, texStamp, log, shown>>
    /\ UNCHANGED notRender

WorkerStep(i) == WorkerPixel(i) \/ WorkerNextCol(i) \/ WorkerExit(i)

\* The single-threaded update_canvas of the earlier snapshot: the image after
\* its two nested loops, x outermost, from image img and with camera cam.
RECURSIVE sequential_rows(_, _, _, _)
sequential_rows(img, cam, x, y) ==
    IF y < kCanvasHeight \div 2
    THEN sequential_rows([img EXCEPT ![put_pixel(x, y)] = PixelColor(cam, x, y)],
                         cam, x, y + 1)
    ELSE img

RECURSIVE sequential_cols(_, _, _)
sequential_cols(img, cam, x) ==
    IF x < kCanvasWidth \div 2
    THEN sequential_cols(sequential_rows(img, cam, x, -(kCanvasHeight \div 2)),
                         cam, x + 1)
    ELSE img

update_canvas_sequential(img, cam) == sequential_cols(img, cam, -(kCanvasWidth \div 2))

\* ------------------------------------------------ calc_ray_shape_intersect
\* Ray parameters t are integers. Infinity stands for
\* std::numeric_limits<float>::infinity(): larger than every t of the model.
MaxT == 3
One == 1000 * 1000
Infinity == 1000 * One + MaxT

\* The scene of the model: two spheres and a plane (the program's has three
\* spheres and a plane), scanned in the order spheres, planes.
kSceneSpheres == <<"sphere1", "sphere2">>
kScenePlanes == <<"plane1">>
Shapes == {"sphere1", "sphere2", "plane1"}
NoShape == "none"

ShapeOrder == kSceneSpheres \o kScenePlanes

\* Sphere::calc_ray_intersect returns nothing or the pair
\* ((-b + root) / 2a, (-b - root) / 2a), the larger root first.
SphereRoots(T) == {<<>>} \cup {p \in T \X T : p[1] >= p[2]}

\* A plane gives nothing or one root.
PlaneRoots(T) == {<<>>} \cup {<<a>> : a \in T}

RootsOver(T) ==
    {f \in [Shapes -> SphereRoots(T) \cup PlaneRoots(T)] :
        /\ \A k \in 1 .. Len(kSceneSpheres) : f[kSceneSpheres[k]] \in SphereRoots(T)
        /\ \A k \in 1 .. Len(kScenePlanes) : f[kScenePlanes[k]] \in PlaneRoots(T)}

\* NaN stands for the float that is not a number, which 0.0F / 0.0F gives: it
\* is no t of the model, and every comparison with it is false.
NaN == -(Infinity + 1)
lt(x, y) == x # NaN /\ y # NaN /\ x < y
gt(x, y) == x # NaN /\ y # NaN /\ x > y
le(x, y) == x # NaN /\ y # NaN /\ x <= y
ge(x, y) == x # NaN /\ y # NaN /\ x >= y

\* The range test of the inner loop.
in_range_closed(t, tmin, tmax) == ge(t, tmin) /\ le(t, tmax)

in_range_by_exclusion(t, tmin, tmax) == ~(le(t, tmin) \/ ge(t, tmax))

in_range(t, tmin, tmax) == gt(t, tmin) /\ lt(t, tmax)

\* The body of the inner loop for root t of shape: the locals closest_t and
\* closest_shape after it, and whether it left the loop by break.
visit_root_any_unranged(fc, acc, t, shape, tmin, tmax) ==
    IF fc
    THEN IF in_range(t, tmin, tmax) /\ lt(t, acc.closest_t)
         THEN [closest_t |-> t, closest_shape |-> shape, brk |-> FALSE]
         ELSE [acc EXCEPT !.brk = FALSE]
    ELSE [closest_t |-> t, closest_shape |-> shape, brk |-> TRUE]

visit_root(fc, acc, t, shape, tmin, tmax) ==
    IF in_range(t, tmin, tmax)
    THEN IF fc
         THEN IF lt(t, acc.closest_t)
              THEN [closest_t |-> t, closest_shape |-> shape, brk |-> FALSE]
              ELSE [acc EXCEPT !.brk = FALSE]
         ELSE [closest_t |-> t, closest_shape |-> shape, brk |-> TRUE]
    ELSE [acc EXCEPT !.brk = FALSE]

\* for (float t : intersect_points), from the k-th root on
RECURSIVE scan_roots(_, _, _, _, _, _, _)
scan_roots(fc, acc, rts, k, shape, tmin, tmax) ==
    IF k > Len(rts)
    THEN acc
    ELSE LET a == visit_root(fc, acc, rts[k], shape, tmin, tmax)
         IN IF a.brk THEN a ELSE scan_roots(fc, a, rts, k + 1, shape, tmin, tmax)

\* for (const Shape& shape_object : objects), from the k-th shape on: the break
\* of the inner loop leaves the inner loop only.
RECURSIVE find_closest_shape(_, _, _, _, _, _, _)
find_closest_shape(fc, acc, objects, k, rts, tmin, tmax) ==
    IF k > Len(objects)
    THEN acc
    ELSE find_closest_shape(fc,
             scan_roots(fc, acc, rts[objects[k]], 1, objects[k], tmin, tmax),
             objects, k + 1, rts, tmin, tmax)

NoAcc == [closest_t |-> Infinity, closest_shape |-> NoShape, brk |-> FALSE]

\* What the call returns: std::nullopt or RayShapeIntersectData{t, shape}.
intersect_data(acc) ==
    IF acc.closest_shape # NoShape
    THEN [hit |-> TRUE, t |-> acc.closest_t, shape |-> acc.closest_shape]
    ELSE [hit |-> FALSE, t |-> 0, shape |-> NoShape]

calc_ray_shape_intersect(fc, rts, tmin, tmax) ==
    intersect_data(
        find_closest_shape(fc,
            find_closest_shape(fc, NoAcc, kSceneSpheres, 1, rts, tmin, tmax),
            kScenePlanes, 1, rts, tmin, tmax))

\* One call, loop step by step. scan.coll is the collection being scanned
\* (1 kSceneSpheres, 2 kScenePlanes), scan.k the next shape of it.
ScanT == 0 .. MaxT
NoResult == [hit |-> FALSE, t |-> 0, shape |-> NoShape]

ScanInit ==
    /\ find_closest \in BOOLEAN
    /\ t_min \in ScanT
    /\ t_max \in ScanT \cup {Infinity}
    /\ roots \in RootsOver(ScanT)
    /\ scan = [pc |-> "scan", coll |-> 1, k |-> 1, acc |-> NoAcc]
    /\ evaluated = <<>>
    /\ result = NoResult

ScanIdle ==
    /\ find_closest = TRUE
    /\ t_min = 0
    /\ t_max = 0
    /\ roots = [s \in Shapes |-> <<>>]
    /\ scan = [pc |-> "idle", coll |-> 1, k |-> 1, acc |-> NoAcc]
    /\ evaluated = <<>>
    /\ result = NoResult

Collection(c) == IF c = 1 THEN kSceneSpheres ELSE kScenePlanes

\* One iteration of the outer loop: the shape's calc_ray_intersect and the
\* inner loop over what it returned.
ScanShape ==
    /\ scan.pc = "scan"
    /\ scan.k <= Len(Collection(scan.coll))
    /\ LET shape == Collection(scan.coll)[scan.k]
       IN /\ evaluated' = Append(evaluated, shape)
          /\ scan' = [scan EXCEPT
                 !.acc = scan_roots(find_closest, scan.acc, roots[shape], 1, shape,
                                    t_min, t_max),
                 !.k = @ + 1]
    /\ UNCHANGED <<find_closest, t_min, t_max, roots, result>>
    /\ UNCHANGED notScan

\* find_closest_shape(kSceneSpheres) returns; find_closest_shape(kScenePlanes)
ScanNextCollection ==
    /\ scan.pc = "scan"
    /\ scan.coll = 1
    /\ scan.k > Len(Collection(scan.coll))
    /\ scan' = [scan EXCEPT !.coll = 2, !.k = 1]
    /\ UNCHANGED <<find_closest, t_min, t_max, roots, evaluated, result>>
    /\ UNCHANGED notScan

\* Both collections are scanned: the call returns.
ScanReturn ==
    /\ scan.pc = "scan"
    /\ scan.coll = 2
    /\ scan.k > Len(Collection(scan.coll))
    /\ result' = intersect_data(scan.acc)
    /\ scan' = [scan EXCEPT !.pc = "done"]
    /\ UNCHANGED <<find_closest, t_min, t_max, roots, evaluated>>
    /\ UNCHANGED notScan

\* ----------------------------------------------------------------- colors
\* A color is <<r, g, b>>, each channel in 0..255. Intensities, reflectivity and
\* transparency are in hundredths.
White == <<255, 255, 255>>
NoColor == <<0, 0, 0>>

clamp(n, lo, hi) == IF n < lo THEN lo ELSE IF n > hi THEN hi ELSE n

\* static_cast<int> of a float truncates toward zero.
trunc_div(n, d) == IF n >= 0 THEN n \div d ELSE -((-n) \div d)

scale_channel_unclamped(c, intensity) == trunc_div(c * intensity, 100)

scale_channel(c, intensity) == clamp(trunc_div(c * intensity, 100), 0, 255)

scale_color(color, intensity) ==
    <<scale_channel(color[1], intensity),
      scale_channel(color[2], intensity),
      scale_channel(color[3], intensity)>>

\* sf::Color operator+ : each channel saturates at 255.
add_color(a, b) ==
    <<clamp(a[1] + b[1], 0, 255), clamp(a[2] + b[2], 0, 255), clamp(a[3] + b[3], 0, 255)>>

\* --------------------------------------------------------- compute_lighting
\* kEpsilon = 0.001F with t in millionths.
kEpsilon == 1000

kSceneLights ==
    <<[type |-> "ambient", intensity |-> 40],
      [type |-> "point", intensity |-> 60],
      [type |-> "directional", intensity |-> 20]>>

\* The roots the trace_ray calls of the model draw from: the surface point the
\* ray starts at (0), kEpsilon, 1.0 and 2.0.
TraceRoots ==
    {[sphere1 |-> <<>>, sphere2 |-> <<>>, plane1 |-> <<>>],
     [sphere1 |-> <<kEpsilon, 0>>, sphere2 |-> <<>>, plane1 |-> <<0>>],
     [sphere1 |-> <<2 * One, 0>>, sphere2 |-> <<>>, plane1 |-> <<>>],
     [sphere1 |-> <<>>, sphere2 |-> <<2 * One, One>>, plane1 |-> <<>>],
     [sphere1 |-> <<>>, sphere2 |-> <<>>, plane1 |-> <<One>>],
     [sphere1 |-> <<2 * One, 2 * One>>, sphere2 |-> <<One, 0>>, plane1 |-> <<2 * One>>]}

\* What the geometry gives compute_lighting for one light at the point: the
\* shapes' roots along the light's direction, dot(normal, direction) as a
\* cosine, dot(reflection, -ray) as a cosine and that cosine to the power
\* specularity, in hundredths.
NoRoots == [s \in Shapes |-> <<>>]

LightRoots ==
    {NoRoots,
     [NoRoots EXCEPT !["sphere1"] = <<One \div 2, 0>>]}

AmbientCase == [rts |-> NoRoots, ndotd |-> 0, rdotr |-> 0, spec_pow |-> 0]

\* Every light in sight of the point, or the point and the directional light
\* behind sphere1.
LightInputs ==
    {[k \in 1 .. Len(kSceneLights) |->
        IF kSceneLights[k].type = "ambient"
        THEN AmbientCase
        ELSE [rts |-> r, ndotd |-> 100, rdotr |-> 100, spec_pow |-> 100]] :
     r \in LightRoots}

\* The far end of the shadow test's range: the light's own position for a
\* point light (direction = position - point, so t = 1 there), none for a
\* directional light.
max_t_occlusion_unbounded(light) == Infinity

max_t_occlusion(light) == IF light.type = "directional" THEN Infinity ELSE One

\* What one light adds to the intensity.
light_term_specular_unshadowed(light, in, specularity) ==
    IF light.type = "ambient"
    THEN light.intensity
    ELSE (IF ~calc_ray_shape_intersect(FALSE, in.rts, kEpsilon,
                                       max_t_occlusion(light)).hit
             /\ in.ndotd > 0
          THEN (light.intensity * in.ndotd) \div 100
          ELSE 0)
         + (IF specularity > 0 /\ in.rdotr > 0
            THEN (light.intensity * in.spec_pow) \div 100
            ELSE 0)

light_term(light, in, specularity) ==
    IF light.type = "ambient"
    THEN light.intensity
    ELSE IF ~calc_ray_shape_intersect(FALSE, in.rts, kEpsilon,
                                      max_t_occlusion(light)).hit
         THEN (IF in.ndotd > 0 THEN (light.intensity * in.ndotd) \div 100 ELSE 0)
              + (IF specularity > 0 /\ in.rdotr > 0
                 THEN (light.intensity * in.spec_pow) \div 100
                 ELSE 0)
         ELSE 0

RECURSIVE light_sum(_, _, _)
light_sum(lin, specularity, k) ==
    IF k > Len(kSceneLights)
    THEN 0
    ELSE light_term(kSceneLights[k], lin[k], specularity)
         + light_sum(lin, specularity, k + 1)

compute_lighting(lin, specularity) == light_sum(lin, specularity, 1)

\* One call, light by light. The inputs of the call: per light the shapes'
\* roots along its direction (none, one inside (kEpsilon, 1), one at kEpsilon,
\* two beyond the point light, one at kEpsilon with one at the point light),
\* the two cosines, and the specularity.
LightRootsAll ==
    {NoRoots,
     [NoRoots EXCEPT !["sphere1"] = <<One \div 2, 0>>],
     [NoRoots EXCEPT !["plane1"] = <<kEpsilon>>],
     [NoRoots EXCEPT !["sphere2"] = <<3 * One, 2 * One>>],
     [NoRoots EXCEPT !["sphere1"] = <<kEpsilon, 0>>, !["plane1"] = <<One>>]}

LightGeometry ==
    {[rts |-> r, ndotd |-> c[1], rdotr |-> c[2], spec_pow |-> c[2]] :
        r \in LightRootsAll, c \in {<<100, 50>>, <<0, 0>>, <<-50, 100>>}}

Specularities == {0, 5}

\* The condition of the line-of-sight test.
light_occluded(light, in) ==
    calc_ray_shape_intersect(FALSE, in.rts, kEpsilon, max_t_occlusion(light)).hit

LightInit ==
    /\ light_in \in [1 .. Len(kSceneLights) -> LightGeometry]
    /\ light_spec \in Specularities
    /\ light_k = 1
    /\ light_sum_so_far = 0
    /\ added = <<>>

LightIdle ==
    /\ light_in = [k \in 1 .. Len(kSceneLights) |-> AmbientCase]
    /\ light_spec = 0
    /\ light_k = 0
    /\ light_sum_so_far = 0
    /\ added = <<>>

\* The loop body for the light at light_k.
AddLight ==
    LET term == light_term(kSceneLights[light_k], light_in[light_k], light_spec)
    IN /\ light_sum_so_far' = light_sum_so_far + term
       /\ added' = Append(added, term)
       /\ light_k' = light_k + 1
       /\ UNCHANGED <<light_in, light_spec>>
       /\ UNCHANGED notLight

LightAmbient ==
    /\ light_k \in 1 .. Len(kSceneLights)
    /\ kSceneLights[light_k].type = "ambient"
    /\ AddLight

LightOccluded ==
    /\ light_k \in 1 .. Len(kSceneLights)
    /\ kSceneLights[light_k].type # "ambient"
    /\ light_occluded(kSceneLights[light_k], light_in[light_k])
    /\ AddLight

LightInSight ==
    /\ light_k \in 1 .. Len(kSceneLights)
    /\ kSceneLights[light_k].type # "ambient"
    /\ ~light_occluded(kSceneLights[light_k], light_in[light_k])
    /\ AddLight

\* return light_sum_so_far
LightReturn ==
    /\ light_k = Len(kSceneLights) + 1
    /\ light_k' = 0
    /\ UNCHANGED <<light_in, light_spec, light_sum_so_far, added>>
    /\ UNCHANGED notLight

\* ---------------------------------------------------------------- trace_ray
kMaxRecursionDepth == 3
kViewportDepth == 750000
FloatMax == Infinity - 1

\* recursion_depth - 1 in unsigned int arithmetic: 0 - 1 wraps to the largest
\* unsigned int, for which the largest integer of the model checker stands.
UIntMax == 2147483647
UIntDec(n) == IF n = 0 THEN UIntMax ELSE n - 1

\* kSceneMaterials, as far as the shapes of the model use them.
red_translucent ==
    [color |-> <<255, 0, 0>>, specularity |-> 5, reflectivity |-> 0, transparency |-> 90]
silver ==
    [color |-> <<210, 210, 210>>, specularity |-> 500, reflectivity |-> 60, transparency |-> 0]
green_dull ==
    [color |-> <<150, 250, 50>>, specularity |-> 10, reflectivity |-> 5, transparency |-> 0]

\* Materials the program's scene does not have: one both reflective and
\* transparent, one neither.
blue_glass ==
    [color |-> <<0, 0, 255>>, specularity |-> 250, reflectivity |-> 50, transparency |-> 50]
matte ==
    [color |-> <<150, 250, 50>>, specularity |-> 0, reflectivity |-> 0, transparency |-> 0]

\* The material assignments of the model: the scene's, and one with the two
\* other materials.
MaterialAssignments ==
    {[sphere1 |-> red_translucent, sphere2 |-> silver, plane1 |-> green_dull],
     [sphere1 |-> blue_glass, sphere2 |-> silver, plane1 |-> matte]}

\* What trace_ray returns without a hit.
background_black == NoColor

background_color == White

\* 1.0F - reflectivity - transparency
local_fraction_no_transparency(reflectivity, transparency) == 100 - reflectivity

local_fraction(reflectivity, transparency) == 100 - reflectivity - transparency

\* The guards of the two recursive branches.
reflect_guard_no_depth(depth, reflectivity) == reflectivity > 0

reflect_guard_from_zero(depth, reflectivity) == (depth >= 0) /\ (reflectivity > 0)

transparent_guard_no_depth(depth, transparency) == transparency > 0

reflect_guard(depth, reflectivity) == (depth > 0) /\ (reflectivity > 0)

transparent_guard(depth, transparency) == (depth > 0) /\ (transparency > 0)

\* The t_min of the recursive call for the reflected ray: kEpsilon * t.
reflected_t_min_zero(t) == 0

reflected_t_min(t) == (kEpsilon * t) \div One

\* scale_color(local + reflected + transparent, light_intensity)
blend_lit_local_only(local_blend, reflected_blend, transparent_blend, intens) ==
    add_color(add_color(scale_color(local_blend, intens), reflected_blend),
              transparent_blend)

blend_lit(local_blend, reflected_blend, transparent_blend, intens) ==
    scale_color(add_color(add_color(local_blend, reflected_blend), transparent_blend),
                intens)

\* A fresh activation trace_ray(ray, tmin, tmax, depth). The ghosts size and
\* lits count the activations and the compute_lighting calls of the activation
\* and of the recursive calls of it that have returned.
Activation(tmin, tmax, depth) ==
    [pc |-> "search", tmin |-> tmin, tmax |-> tmax, depth |-> depth,
     t |-> 0, shape |-> NoShape,
     reflected_color_blend |-> NoColor, transparent_color_blend |-> NoColor,
     in_range |-> FALSE, any_roots |-> FALSE, calls |-> 0, size |-> 1, lits |-> 0]

NoLast == [valid |-> FALSE, depth |-> 0, shape |-> NoShape, in_range |-> FALSE,
           any_roots |-> FALSE, lit |-> 0, calls |-> 0, color |-> NoColor,
           tmin |-> 0, tmax |-> 0, t |-> 0, size |-> 0, lits |-> 0]

TraceInit ==
    /\ materials \in MaterialAssignments
    /\ lighting \in LightInputs
    /\ stack = <<Activation(kViewportDepth, FloatMax, kMaxRecursionDepth)>>
    /\ returned = <<>>
    /\ last = NoLast

TraceIdle ==
    /\ materials = [s \in Shapes |-> silver]
    /\ lighting = [k \in 1 .. Len(kSceneLights) |-> AmbientCase]
    /\ stack = <<>>
    /\ returned = <<>>
    /\ last = NoLast

Top == stack[Len(stack)]

\* Some shape has a root strictly inside (tmin, tmax).
HasRootInRange(rts, tmin, tmax) ==
    \E s \in Shapes : \E k \in 1 .. Len(rts[s]) : rts[s][k] > tmin /\ rts[s][k] < tmax

\* The top activation returns color (inr, anyr: whether its ray had a root in
\* range, and any root; lit: how often it called compute_lighting): the caller,
\* if any, takes the color as its reflected or transparent color and goes on.
Return(color, inr, anyr, lit) ==
    /\ last' = [valid |-> TRUE, depth |-> Top.depth, shape |-> Top.shape,
                in_range |-> inr, any_roots |-> anyr, lit |-> lit,
                calls |-> Top.calls, color |-> color,
                tmin |-> Top.tmin, tmax |-> Top.tmax, t |-> Top.t,
                size |-> Top.size, lits |-> Top.lits + lit]
    /\ IF Len(stack) = 1
       THEN /\ stack' = <<>>
            /\ returned' = <<color>>
       ELSE LET caller == stack[Len(stack) - 1]
                m == materials[caller.shape]
                resumed ==
                    IF caller.pc = "wait_reflect"
                    THEN [caller EXCEPT
                            !.reflected_color_blend = scale_color(color, m.reflectivity),
                            !.pc = "transparent",
                            !.size = @ + Top.size,
                            !.lits = @ + Top.lits + lit]
                    ELSE [caller EXCEPT
                            !.transparent_color_blend = scale_color(color, m.transparency),
                            !.pc = "blend",
                            !.size = @ + Top.size,
                            !.lits = @ + Top.lits + lit]
            IN /\ stack' = Append(SubSeq(stack, 1, Len(stack) - 2), resumed)
               /\ UNCHANGED returned

\* calc_ray_shape_intersect(ray, t_min, t_max) in closest mode; without a hit
\* the call returns the background color.
TraceSearch ==
    /\ stack # <<>>
    /\ Top.pc = "search"
    /\ \E rts \in TraceRoots :
          LET closest_intersect == calc_ray_shape_intersect(TRUE, rts, Top.tmin, Top.tmax)
              inr == HasRootInRange(rts, Top.tmin, Top.tmax)
              anyr == \E s \in Shapes : rts[s] # <<>>
          IN IF closest_intersect.hit
             THEN /\ stack' = [stack EXCEPT ![Len(stack)] =
                                 [@ EXCEPT !.pc = "reflect",
                                           !.t = closest_intersect.t,
                                           !.shape = closest_intersect.shape,
                                           !.in_range = inr,
                                           !.any_roots = anyr]]
                  /\ UNCHANGED <<returned, last>>
             ELSE Return(background_color, inr, anyr, 0)
    /\ UNCHANGED <<materials, lighting>>
    /\ UNCHANGED notTrace

\* The reflective branch: the recursive call for the reflected ray, or none.
TraceReflect ==
    /\ stack # <<>>
    /\ Top.pc = "reflect"
    /\ IF reflect_guard(Top.depth, materials[Top.shape].reflectivity)
       THEN stack' = Append(
                [stack EXCEPT ![Len(stack)] =
                    [@ EXCEPT !.pc = "wait_reflect", !.calls = @ + 1]],
                Activation(reflected_t_min(Top.t), Infinity, UIntDec(Top.depth)))
       ELSE stack' = [stack EXCEPT ![Len(stack)] = [@ EXCEPT !.pc = "transparent"]]
    /\ UNCHANGED <<materials, lighting, returned, last>>
    /\ UNCHANGED notTrace

\* The transparent branch: the recursive call for the continuing ray, or none.
TraceTransparent ==
    /\ stack # <<>>
    /\ Top.pc = "transparent"
    /\ IF transparent_guard(Top.depth, materials[Top.shape].transparency)
       THEN stack' = Append(
                [stack EXCEPT ![Len(stack)] =
                    [@ EXCEPT !.pc = "wait_transparent", !.calls = @ + 1]],
                Activation(kEpsilon, Infinity, UIntDec(Top.depth)))
       ELSE stack' = [stack EXCEPT ![Len(stack)] = [@ EXCEPT !.pc = "blend"]]
    /\ UNCHANGED <<materials, lighting, returned, last>>
    /\ UNCHANGED notTrace

\* The blend, compute_lighting and the return of the lit color.
TraceBlend ==
    /\ stack # <<>>
    /\ Top.pc = "blend"
    /\ LET m == materials[Top.shape]
           local_color_blend ==
               scale_color(m.color, local_fraction(m.reflectivity, m.transparency))
           light_intensity == compute_lighting(lighting, m.specularity)
           color == blend_lit(local_color_blend, Top.reflected_color_blend,
                              Top.transparent_color_blend, light_intensity)
       IN Return(color, Top.in_range, Top.any_roots, 1)
    /\ UNCHANGED <<materials, lighting>>
    /\ UNCHANGED notTrace

\* ------------------------------------------- the color arithmetic of trace_ray
\* One activation that hit a shape, from the return of its recursive calls on.
\* Its inputs: the material's color, reflectivity and transparency (also pairs
\* with reflectivity + transparency > 1), the colors the two recursive calls
\* return, what compute_lighting returns, and whether recursion_depth > 0.
BlendColors == {NoColor, White, red_translucent.color, silver.color, green_dull.color}
RecursiveColors == {NoColor, White, silver.color}
Fractions == {0, 5, 30, 50, 60, 90, 100}
Intensities == {0, 20, 100, 200}

NoLocals ==
    [reflected_color_blend |-> NoColor, transparent_color_blend |-> NoColor,
     local_color_blend |-> NoColor, blend |-> NoColor, sum |-> NoColor]

BlendInit ==
    /\ blend_in \in [color : BlendColors,
                     reflectivity : Fractions,
                     transparency : Fractions,
                     reflected_color : RecursiveColors,
                     transparent_color : RecursiveColors,
                     light_intensity : Intensities,
                     recursion_depth : {0, 1}]
    /\ blend_pc = "reflect"
    /\ blend_loc = NoLocals
    /\ blend_out = <<>>

BlendIdle ==
    /\ blend_in = [color |-> NoColor, reflectivity |-> 0, transparency |-> 0,
                   reflected_color |-> NoColor, transparent_color |-> NoColor,
                   light_intensity |-> 0, recursion_depth |-> 0]
    /\ blend_pc = "idle"
    /\ blend_loc = NoLocals
    /\ blend_out = <<>>

\* reflected_color_blend: the scaled reflected color, or the default color
BlendReflected ==
    /\ blend_pc = "reflect"
    /\ blend_loc' = [blend_loc EXCEPT !.reflected_color_blend =
           IF reflect_guard(blend_in.recursion_depth, blend_in.reflectivity)
           THEN scale_color(blend_in.reflected_color, blend_in.reflectivity)
           ELSE NoColor]
    /\ blend_pc' = "transparent"
    /\ UNCHANGED <<blend_in, blend_out>>
    /\ UNCHANGED notBlend

\* transparent_color_blend
BlendTransparent ==
    /\ blend_pc = "transparent"
    /\ blend_loc' = [blend_loc EXCEPT !.transparent_color_blend =
           IF transparent_guard(blend_in.recursion_depth, blend_in.transparency)
           THEN scale_color(blend_in.transparent_color, blend_in.transparency)
           ELSE NoColor]
    /\ blend_pc' = "local"
    /\ UNCHANGED <<blend_in, blend_out>>
    /\ UNCHANGED notBlend

\* local_color_blend
BlendLocal ==
    /\ blend_pc = "local"
    /\ blend_loc' = [blend_loc EXCEPT !.local_color_blend =
           scale_color(blend_in.color,
                       local_fraction(blend_in.reflectivity, blend_in.transparency))]
    /\ blend_pc' = "sum"
    /\ UNCHANGED <<blend_in, blend_out>>
    /\ UNCHANGED notBlend

\* blend: the sum of the three, by sf::Color's operator+. sum is the sum of
\* the channels as integers.
BlendSum ==
    /\ blend_pc = "sum"
    /\ blend_loc' = [blend_loc EXCEPT
           !.blend = add_color(add_color(blend_loc.local_color_blend,
                                         blend_loc.reflected_color_blend),
                               blend_loc.transparent_color_blend),
           !.sum = [c \in 1 .. 3 |->
                       blend_loc.local_color_blend[c]
                       + blend_loc.reflected_color_blend[c]
                       + blend_loc.transparent_color_blend[c]]]
    /\ blend_pc' = "light"
    /\ UNCHANGED <<blend_in, blend_out>>
    /\ UNCHANGED notBlend

\* return scale_color(blend, light_intensity)
BlendLit ==
    /\ blend_pc = "light"
    /\ blend_out' = <<scale_color(blend_loc.blend, blend_in.light_intensity)>>
    /\ blend_pc' = "done"
    /\ UNCHANGED <<blend_in, blend_loc>>
    /\ UNCHANGED notBlend

\* ------------------------------------------------- calc_refraction_vector
\* A vector is <<x, y, z>>. The parameters incoming and normal have integer
\* components; unit vectors, cosines, the refractivity and the refractive
\* ratio are in thousandths (Unit stands for 1.0F).
Unit == One \div 1000

\* std::sqrt, rounded down
isqrt(n) == CHOOSE r \in 0 .. n : r * r <= n /\ (r + 1) * (r + 1) > n

neg(v) == <<-v[1], -v[2], -v[3]>>
vadd(v, w) == <<v[1] + w[1], v[2] + w[2], v[3] + w[3]>>
\* dot of two vectors of integers
dot(v, w) == v[1] * w[1] + v[2] * w[2] + v[3] * w[3]
\* dot of two vectors in thousandths, and a scalar in thousandths times such
\* a vector
udot(v, w) == trunc_div(dot(v, w), Unit)
uscale(k, v) ==
    <<trunc_div(k * v[1], Unit), trunc_div(k * v[2], Unit), trunc_div(k * v[3], Unit)>>
euclidean(v) == isqrt(dot(v, v))
\* the unit vector, in thousandths, of a vector of integers
normalize(v) ==
    <<trunc_div(v[1] * Unit, euclidean(v)), trunc_div(v[2] * Unit, euclidean(v)),
      trunc_div(v[3] * Unit, euclidean(v))>>
project_onto_unit(v, n) == uscale(udot(v, n), n)

reflect_across_normal(ray_vector, normal) ==
    vadd(uscale(2 * Unit, project_onto_unit(ray_vector, normal)), neg(ray_vector))

\* What the branch of the negative radicand returns.
total_internal_reflection_of_incoming(arrival_unit, normal_unit) ==
    reflect_across_normal(neg(arrival_unit), normal_unit)

total_internal_reflection(arrival_unit, normal_unit) ==
    reflect_across_normal(arrival_unit, normal_unit)

\* refractive_ratio: 1 / (1 + refractivity) entering, 1 + refractivity exiting
ratio_of_exiting(entering, refractivity) == Unit + refractivity

ratio_of(entering, refractivity) ==
    IF entering THEN (Unit * Unit) \div (Unit + refractivity) ELSE Unit + refractivity

\* The parameters of the model: rays straight and slanted against the normals,
\* along them and across them; refractivities from none (and below) through
\* the scene's 0.02 to 3.0.
Incomings ==
    {<<0, -1, 0>>, <<3, -4, 0>>, <<4, -3, 0>>, <<24, -7, 0>>,
     <<0, 1, 0>>, <<3, 4, 0>>, <<4, 3, 0>>, <<24, 7, 0>>,
     <<0, 0, 2>>, <<0, -7, 24>>}
Normals == {<<0, 1, 0>>, <<0, 2, 0>>, <<0, -1, 0>>, <<3, 4, 0>>}
Refractivities == {-20, 0, 20, 500, 1000, 3000}

NoVector == <<0, 0, 0>>
NoRefractLocals ==
    [entering_shape |-> FALSE, arrival_unit |-> NoVector, normal_unit |-> NoVector,
     refractive_ratio |-> 0, normal_dot_arrival |-> 0, in_radical |-> 0]

RefractInit ==
    /\ refr_in \in [incoming : Incomings, normal : Normals,
                    refractivity : Refractivities]
    /\ refr_pc = "entry"
    /\ refr_loc = NoRefractLocals
    /\ refr_out = <<>>

RefractIdle ==
    /\ refr_in = [incoming |-> NoVector, normal |-> NoVector, refractivity |-> 0]
    /\ refr_pc = "idle"
    /\ refr_loc = NoRefractLocals
    /\ refr_out = <<>>

\* refractivity <= 0: the ray goes on unbent
RefractNoBend ==
    /\ refr_pc = "entry"
    /\ refr_in.refractivity <= 0
    /\ refr_out' = <<refr_in.incoming>>
    /\ refr_pc' = "done"
    /\ UNCHANGED <<refr_in, refr_loc>>
    /\ UNCHANGED notRefract

\* The locals up to in_radical.
RefractRadicand ==
    /\ refr_pc = "entry"
    /\ refr_in.refractivity > 0
    /\ LET entering_shape == dot(refr_in.normal, refr_in.incoming) < 0
           arrival_unit == neg(normalize(refr_in.incoming))
           normal_unit == IF entering_shape THEN normalize(refr_in.normal)
                          ELSE neg(normalize(refr_in.normal))
           refractive_ratio == ratio_of(entering_shape, refr_in.refractivity)
           normal_dot_arrival == udot(normal_unit, arrival_unit)
           temp == Unit - trunc_div(normal_dot_arrival * normal_dot_arrival, Unit)
           in_radical ==
               Unit - trunc_div(trunc_div(refractive_ratio * refractive_ratio, Unit)
                                * temp, Unit)
       IN refr_loc' = [entering_shape |-> entering_shape,
                       arrival_unit |-> arrival_unit,
                       normal_unit |-> normal_unit,
                       refractive_ratio |-> refractive_ratio,
                       normal_dot_arrival |-> normal_dot_arrival,
                       in_radical |-> in_radical]
    /\ refr_pc' = "radicand"
    /\ UNCHANGED <<refr_in, refr_out>>
    /\ UNCHANGED notRefract

\* in_radical < 0: total internal reflection
RefractTotalInternal ==
    /\ refr_pc = "radicand"
    /\ refr_loc.in_radical < 0
    /\ refr_out' = <<total_internal_reflection(refr_loc.arrival_unit,
                                               refr_loc.normal_unit)>>
    /\ refr_pc' = "done"
    /\ UNCHANGED <<refr_in, refr_loc>>
    /\ UNCHANGED notRefract

\* The transmitted vector first + second.
RefractTransmit ==
    /\ refr_pc = "radicand"
    /\ ~(refr_loc.in_radical < 0)
    /\ LET radical == isqrt(refr_loc.in_radical * Unit)
           first == uscale(trunc_div(refr_loc.refractive_ratio
                                     * refr_loc.normal_dot_arrival, Unit) - radical,
                           refr_loc.normal_unit)
           second == uscale(-refr_loc.refractive_ratio, refr_loc.arrival_unit)
       IN refr_out' = <<vadd(first, second)>>
    /\ refr_pc' = "done"
    /\ UNCHANGED <<refr_in, refr_loc>>
    /\ UNCHANGED notRefract

\* ------------------------------------------- the shapes' calc_ray_intersect
\* Points and vectors of the scene and of the rays have integer components, as
\* have a, b, c and the discriminant; the roots t are in millionths.
vsub(v, w) == <<v[1] - w[1], v[2] - w[2], v[3] - w[3]>>

\* n / d of two floats, as a t in millionths, n being in hundredths
float_div(n, d) ==
    IF d = 0
    THEN IF n = 0 THEN NaN ELSE IF n > 0 THEN Infinity ELSE -Infinity
    ELSE trunc_div(n * 10000, d)

\* a, b, c and the discriminant of the sphere's quadratic
sphere_quadratic(sphere, ray_point, ray_vector) ==
    LET c_p == vsub(ray_point, sphere.center)
        a == dot(ray_vector, ray_vector)
        b == dot(c_p, ray_vector) * 2
        c == dot(c_p, c_p) - sphere.radius * sphere.radius
    IN [a |-> a, b |-> b, c |-> c, discriminant |-> (b * b) - (4 * a * c)]

\* The test for 'no intersect point'.
no_intersect_point_or_tangent(discriminant) == discriminant <= 0

no_intersect_point(discriminant) == discriminant < 0

\* The pair the sphere returns, disc_root being in hundredths.
sphere_roots_far_only(q) ==
    LET disc_root == isqrt(q.discriminant * 10000)
    IN <<float_div((-q.b) * 100 + disc_root, 2 * q.a),
         float_div((-q.b) * 100 + disc_root, 2 * q.a)>>

sphere_roots(q) ==
    LET disc_root == isqrt(q.discriminant * 10000)
    IN <<float_div((-q.b) * 100 + disc_root, 2 * q.a),
         float_div((-q.b) * 100 - disc_root, 2 * q.a)>>

\* The plane: |dot(ray.direction, normal)| < epsilon is the parallel case,
\* t = dot(plane_point - ray.origin, normal) / dot(ray.direction, normal),
\* and a t < 0 is no intersection.
plane_denominator(plane, ray_vector) == dot(ray_vector, plane.normal)
plane_numerator(plane, ray_point) == dot(vsub(plane.point, ray_point), plane.normal)
plane_parallel_never(plane, ray_vector) == FALSE

plane_parallel(plane, ray_vector) ==
    LET d == plane_denominator(plane, ray_vector)
    IN (IF d < 0 THEN -d ELSE d) * One < kEpsilon
plane_root(plane, ray_point, ray_vector) ==
    float_div(plane_numerator(plane, ray_point) * 100,
              plane_denominator(plane, ray_vector))
plane_behind(plane, ray_point, ray_vector) ==
    LET n == plane_numerator(plane, ray_point)
        d == plane_denominator(plane, ray_vector)
    IN IF d = 0 THEN n < 0 ELSE n # 0 /\ ((n < 0) # (d < 0))

\* Ray::calc_point, in thousandths
calc_point(r, t) == vadd(uscale(Unit * Unit, r.point), <<trunc_div(t * r.vector[1], Unit),
    trunc_div(t * r.vector[2], Unit), trunc_div(t * r.vector[3], Unit)>>)

\* The normal at a point (in thousandths) of the shape, a unit vector.
calc_normal(shape, point) ==
    IF shape.kind = "sphere"
    THEN normalize(vsub(point, uscale(Unit * Unit, shape.center)))
    ELSE normalize(shape.normal)

\* The shapes of the scene, but its third sphere.
SceneShapes ==
    {[kind |-> "sphere", name |-> "sphere1", center |-> <<0, 0, 3>>, radius |-> 1],
     [kind |-> "sphere", name |-> "sphere2", center |-> <<2, 0, 4>>, radius |-> 1],
     [kind |-> "plane", name |-> "plane1", point |-> <<0, -1, 0>>,
      normal |-> <<0, 1, 0>>]}

\* Rays from the origin and from three more points, among them the ray with
\* no direction, rays along the plane and rays away from it.
RayPoints == {<<0, 0, 0>>, <<0, 1, 0>>, <<0, 2, 0>>, <<0, -3, 5>>}
RayVectors ==
    {<<0, 0, 1>>, <<0, 0, 0>>, <<0, 0, 2>>, <<1, 0, 0>>, <<0, -1, 0>>, <<0, 1, 1>>,
     <<1, 0, 1>>, <<0, 0, -1>>, <<0, 1, 4>>}
SearchRanges == {<<kEpsilon, Infinity>>, <<kViewportDepth, FloatMax>>, <<kEpsilon, One>>}
AmbientIntensities == {20, 40}
DiffuseColors == {red_translucent.color, green_dull.color}

NoQuadratic == [a |-> 0, b |-> 0, c |-> 0, discriminant |-> 0]
NotShaded == [intersect_point |-> NoVector, normal |-> NoVector, color |-> <<>>]

ShapeInit ==
    /\ ray \in [point : RayPoints, vector : RayVectors]
    /\ shape_object \in SceneShapes
    /\ lone_scene \in [range : SearchRanges, ambient : AmbientIntensities,
                       color : DiffuseColors]
    /\ shape_pc = "intersect"
    /\ quadratic = NoQuadratic
    /\ intersect_points = <<>>
    /\ shape_intersect = NoResult
    /\ shaded = NotShaded

ShapeIdle ==
    /\ ray = [point |-> NoVector, vector |-> NoVector]
    /\ shape_object = [kind |-> "none"]
    /\ lone_scene = [range |-> <<0, 0>>, ambient |-> 0, color |-> NoColor]
    /\ shape_pc = "idle"
    /\ quadratic = NoQuadratic
    /\ intersect_points = <<>>
    /\ shape_intersect = NoResult
    /\ shaded = NotShaded

\* What a step of calc_ray_intersect leaves alone.
ShapeStep(next_pc) ==
    /\ shape_pc' = next_pc
    /\ UNCHANGED <<ray, shape_object, lone_scene, shape_intersect, shaded>>
    /\ UNCHANGED notShape

SphereQuadratic ==
    /\ shape_pc = "intersect"
    /\ shape_object.kind = "sphere"
    /\ quadratic' = sphere_quadratic(shape_object, ray.point, ray.vector)
    /\ UNCHANGED intersect_points
    /\ ShapeStep("quadratic")

SphereNoIntersect ==
    /\ shape_pc = "quadratic"
    /\ no_intersect_point(quadratic.discriminant)
    /\ intersect_points' = <<>>
    /\ UNCHANGED quadratic
    /\ ShapeStep("search")

SphereIntersect ==
    /\ shape_pc = "quadratic"
    /\ ~no_intersect_point(quadratic.discriminant)
    /\ intersect_points' = sphere_roots(quadratic)
    /\ UNCHANGED quadratic
    /\ ShapeStep("search")

PlaneParallel ==
    /\ shape_pc = "intersect"
    /\ shape_object.kind = "plane"
    /\ plane_parallel(shape_object, ray.vector)
    /\ intersect_points' = <<>>
    /\ UNCHANGED quadratic
    /\ ShapeStep("search")

PlaneBehind ==
    /\ shape_pc = "intersect"
    /\ shape_object.kind = "plane"
    /\ ~plane_parallel(shape_object, ray.vector)
    /\ plane_behind(shape_object, ray.point, ray.vector)
    /\ intersect_points' = <<>>
    /\ UNCHANGED quadratic
    /\ ShapeStep("search")

PlaneIntersect ==
    /\ shape_pc = "intersect"
    /\ shape_object.kind = "plane"
    /\ ~plane_parallel(shape_object, ray.vector)
    /\ ~plane_behind(shape_object, ray.point, ray.vector)
    /\ intersect_points' = <<plane_root(shape_object, ray.point, ray.vector)>>
    /\ UNCHANGED quadratic
    /\ ShapeStep("search")

\* calc_ray_shape_intersect in closest mode, the shape being the scene.
ShapeSearch ==
    /\ shape_pc = "search"
    /\ shape_intersect' =
           intersect_data(scan_roots(TRUE, NoAcc, intersect_points, 1,
                                     shape_object.name,
                                     lone_scene.range[1], lone_scene.range[2]))
    /\ shape_pc' = "trace"
    /\ UNCHANGED <<ray, shape_object, lone_scene, quadratic, intersect_points, shaded>>
    /\ UNCHANGED notShape

\* calc_ray_shape_intersect<false>, as compute_lighting calls it
ShapeProbe ==
    /\ shape_pc = "search"
    /\ shape_intersect' =
           intersect_data(scan_roots(FALSE, NoAcc, intersect_points, 1,
                                     shape_object.name,
                                     lone_scene.range[1], lone_scene.range[2]))
    /\ shape_pc' = "probed"
    /\ UNCHANGED <<ray, shape_object, lone_scene, quadratic, intersect_points, shaded>>
    /\ UNCHANGED notShape

\* trace_ray without a hit
ShapeBackground ==
    /\ shape_pc = "trace"
    /\ ~shape_intersect.hit
    /\ shaded' = [NotShaded EXCEPT !.color = <<background_color>>]
    /\ shape_pc' = "done"
    /\ UNCHANGED <<ray, shape_object, lone_scene, quadratic, intersect_points,
                   shape_intersect>>
    /\ UNCHANGED notShape

\* trace_ray with a hit, on a material of no specularity, reflectivity and
\* transparency, under the one ambient light
ShapeShade ==
    /\ shape_pc = "trace"
    /\ shape_intersect.hit
    /\ LET intersect_point == calc_point(ray, shape_intersect.t)
           local_color_blend == scale_color(lone_scene.color, local_fraction(0, 0))
           blend == add_color(add_color(local_color_blend, NoColor), NoColor)
           light_intensity ==
               light_term([type |-> "ambient", intensity |-> lone_scene.ambient],
                          AmbientCase, 0)
       IN shaded' = [intersect_point |-> intersect_point,
                     normal |-> calc_normal(shape_object, intersect_point),
                     color |-> <<scale_color(blend, light_intensity)>>]
    /\ shape_pc' = "done"
    /\ UNCHANGED <<ray, shape_object, lone_scene, quadratic, intersect_points,
                   shape_intersect>>
    /\ UNCHANGED notShape

\* ------------------------------------------------------ the specifications
RenderIdle ==
    /\ kCanvasWidth = 0
    /\ kCanvasHeight = 0
    /\ kNumThreads = 1
    /\ pc = "idle"
    /\ retTo = "first"
    /\ windowOpen = TRUE
    /\ camera_iter = 0
    /\ space_pressed = FALSE
    /\ space_pressed_prev = FALSE
    /\ segment = 0
    /\ joined = 0
    /\ threads = [i \in Workers |-> NotStarted]
    /\ image = [p \in Pixels |-> Black]
    /\ texture = [p \in Pixels |-> Black]
    /\ pass = 0
    /\ stamp = [p \in Pixels |-> 0]
    /\ texStamp = [p \in Pixels |-> 0]
    /\ log = <<>>
    /\ shown = <<>>

Init == RenderInit /\ ScanIdle /\ TraceIdle /\ LightIdle /\ BlendIdle /\ RefractIdle /\ ShapeIdle

ScanSpecInit == RenderIdle /\ ScanInit /\ TraceIdle /\ LightIdle /\ BlendIdle /\ RefractIdle /\ ShapeIdle

TraceSpecInit == RenderIdle /\ ScanIdle /\ TraceInit /\ LightIdle /\ BlendIdle /\ RefractIdle /\ ShapeIdle

LightSpecInit == RenderIdle /\ ScanIdle /\ TraceIdle /\ LightInit /\ BlendIdle /\ RefractIdle /\ ShapeIdle

BlendSpecInit ==
    RenderIdle /\ ScanIdle /\ TraceIdle /\ LightIdle /\ BlendInit /\ RefractIdle /\ ShapeIdle

RefractSpecInit ==
    RenderIdle /\ ScanIdle /\ TraceIdle /\ LightIdle /\ BlendIdle /\ RefractInit
    /\ ShapeIdle

ShapeSpecInit ==
    RenderIdle /\ ScanIdle /\ TraceIdle /\ LightIdle /\ BlendIdle /\ RefractIdle
    /\ ShapeInit

ShapeNext ==
    \/ SphereQuadratic
    \/ SphereNoIntersect
    \/ SphereIntersect
    \/ PlaneParallel
    \/ PlaneBehind
    \/ PlaneIntersect
    \/ ShapeSearch
    \/ ShapeProbe
    \/ ShapeBackground
    \/ ShapeShade

ShapeSpec == ShapeSpecInit /\ [][ShapeNext]_vars

RefractNext ==
    \/ RefractNoBend
    \/ RefractRadicand
    \/ RefractTotalInternal
    \/ RefractTransmit

RefractSpec == RefractSpecInit /\ [][RefractNext]_vars

BlendNext ==
    \/ BlendReflected
    \/ BlendTransparent
    \/ BlendLocal
    \/ BlendSum
    \/ BlendLit

BlendSpec == BlendSpecInit /\ [][BlendNext]_vars

LightNext ==
    \/ LightAmbient
    \/ LightOccluded
    \/ LightInSight
    \/ LightReturn

LightSpec == LightSpecInit /\ [][LightNext]_vars

TraceNext ==
    \/ TraceSearch
    \/ TraceReflect
    \/ TraceTransparent
    \/ TraceBlend

TraceSpec == TraceSpecInit /\ [][TraceNext]_vars

ScanNext ==
    \/ ScanShape
    \/ ScanNextCollection
    \/ ScanReturn

ScanSpec == ScanSpecInit /\ [][ScanNext]_vars

Next ==
    \/ MainStart
    \/ Spawn
    \/ Join
    \/ Snapshot
    \/ \E i \in Workers : WorkerPixel(i)
    \/ \E i \in Workers : WorkerNextCol(i)
    \/ \E i \in Workers : WorkerExit(i)
    \/ LoopKey
    \/ LoopIdle
    \/ AfterUpdate
    \/ MainExit

Spec == Init /\ [][Next]_vars

\* The scheduler runs every runnable thread: the main thread inside
\* update_canvas, and each worker.
FairSpec ==
    /\ Init
    /\ [][Next]_vars
    /\ WF_vars(MainStart \/ Spawn \/ Join \/ Snapshot)
    /\ \A i \in 0 .. MaxThreads - 1 : WF_vars(i \in Workers /\ WorkerStep(i))

\* ------------------------------------------------------- the render claims
Range(s) == x_begin(s, kNumThreads, kCanvasWidth)
                .. x_end(s, kNumThreads, kCanvasWidth) - 1

\* C1: for every width W >= 0 and worker count N >= 1 the column ranges of
\* segments 0..N-1 are contiguous and pairwise disjoint and their union is
\* exactly [-(W div 2), W div 2).
C1_PartitionTiles ==
    LET W == kCanvasWidth
        N == kNumThreads
    IN /\ x_begin(0, N, W) = -(W \div 2)
       /\ \A s \in 0 .. N - 2 : x_end(s, N, W) = x_begin(s + 1, N, W)
       /\ x_end(N - 1, N, W) = W \div 2
       /\ \A s \in 0 .. N - 1 : x_begin(s, N, W) <= x_end(s, N, W)
       /\ \A s, t \in 0 .. N - 1 : s # t => Range(s) \cap Range(t) = {}
       /\ UNION {Range(s) : s \in 0 .. N - 1} = (-(W \div 2)) .. (W \div 2) - 1

\* A pass with more workers than columns, the width not a multiple of the
\* worker count, has filled its columns.
C1_Witness ==
    /\ kCanvasWidth = 2
    /\ kNumThreads = 3
    /\ kCanvasHeight = 2
    /\ pc = "snapshot"
    /\ DOMAIN log = Coords

\* C2: during a pass no (x, y) is passed to put_pixel by two different
\* workers, in any interleaving.
C2_NoSharedPixel ==
    \A c \in DOMAIN log :
        \A k1, k2 \in 1 .. Len(log[c]) : log[c][k1] = log[c][k2]

\* Two workers are running and each has put a pixel.
C2_Witness ==
    \E c1, c2 \in DOMAIN log :
        /\ log[c1][1] # log[c2][1]
        /\ threads[log[c1][1]].st = "run"
        /\ threads[log[c2][1]].st = "run"

PassPcs == {"spawn", "join", "snapshot"}

AllJoined ==
    /\ segment = kNumThreads
    /\ joined = kNumThreads
    /\ \A i \in Workers : threads[i].st = "joined"

Quiescent == \A i \in Workers : threads[i].st \in {"none", "joined"}

\* The pixels the render loops write.
Written == {put_pixel(c[1], c[2]) : c \in Coords}

\* A frame of one pass only: all its written pixels carry the same stamp.
FrameComplete(f) == \A p, q \in Written : f[p] = f[q]

\* C3: snapshot() runs only after every worker of the pass has been spawned
\* and joined, and no frame drawn holds only some of a pass's pixels.
C3_SnapshotAfterJoin ==
    [][/\ Snapshot => AllJoined
       /\ shown' # <<>> => FrameComplete(shown'[1])]_vars

\* The frame of a pass started by the space key, rendered by several workers,
\* has been drawn.
C3_Witness ==
    /\ shown # <<>>
    /\ kNumThreads >= 2
    /\ kCanvasWidth >= 2
    /\ kCanvasHeight >= 2
    /\ \A p \in Written : shown[1][p] = 2

\* C4: render passes never overlap: a call of update_canvas starts only when no
\* worker of an earlier pass is alive, and outside update_canvas none is.
C4_PassesNeverOverlap ==
    [][/\ pass' # pass => Quiescent
       /\ pc \notin PassPcs => Quiescent]_vars

\* A second pass is under way with a worker running.
C4_Witness ==
    /\ pass = 2
    /\ pc = "join"
    /\ \E i \in Workers : threads[i].st = "run"

\* C5: under fair scheduling every started pass completes: all its workers
\* terminate and are joined, the snapshot is taken and update_canvas returns.
C5_PassCompletes ==
    \A p \in 1 .. MaxPasses + 1 :
        (pass = p /\ pc = "spawn")
            ~> (pass = p /\ pc \in {"loop", "after_update"} /\ AllJoined
                /\ \A q \in Written : texStamp[q] = p)

\* The pass of a key press has returned to main's loop.
C5_Witness ==
    /\ pass = 2
    /\ pc = "after_update"
    /\ kNumThreads >= 2
    /\ Written # {}

\* ------------------------------------------- the intersection search claims
\* The roots of shape s strictly inside (t_min, t_max), as indices of roots[s].
QualIdx(s) == {k \in 1 .. Len(roots[s]) : roots[s][k] > t_min /\ roots[s][k] < t_max}

QualT == UNION {{roots[s][k] : k \in QualIdx(s)} : s \in Shapes}

SetMin(S) == CHOOSE m \in S : \A n \in S : m <= n

\* C9: in closest mode the search returns a result iff some shape has a root t
\* with t_min < t < t_max; the t returned is the least such root over all
\* shapes and the shape returned has it; no root equal to t_min or t_max is
\* selected.
C9_ClosestIsMinimum ==
    (scan.pc = "done" /\ find_closest) =>
        /\ result.hit <=> QualT # {}
        /\ result.hit =>
              /\ result.t = SetMin(QualT)
              /\ result.shape \in Shapes
              /\ \E k \in QualIdx(result.shape) : roots[result.shape][k] = result.t
              /\ result.t # t_min
              /\ result.t # t_max

\* A closest-mode call returned the plane's root although both spheres, scanned
\* before it, have roots in range, and one shape has a root equal to t_min and
\* one a root equal to t_max.
C9_Witness ==
    /\ scan.pc = "done"
    /\ find_closest
    /\ result.hit
    /\ result.shape = "plane1"
    /\ QualIdx("sphere1") # {}
    /\ QualIdx("sphere2") # {}
    /\ \E s \in Shapes : \E k \in 1 .. Len(roots[s]) : roots[s][k] = t_min
    /\ \E s \in Shapes : \E k \in 1 .. Len(roots[s]) : roots[s][k] = t_max

\* The first shape in scan order with a root in range.
FirstQualShape == SetMin({k \in 1 .. Len(ShapeOrder) : QualIdx(ShapeOrder[k]) # {}})

\* C10: in any mode the search accepts the first root in range in scan order
\* and stops: no later shape's intersection is evaluated, and the first root in
\* range and its shape are returned.
C10_AnyStopsAtFirst ==
    (scan.pc = "done" /\ ~find_closest /\ QualT # {}) =>
        LET shape == ShapeOrder[FirstQualShape]
        IN /\ evaluated = SubSeq(ShapeOrder, 1, FirstQualShape)
           /\ result = [hit |-> TRUE,
                        t |-> roots[shape][SetMin(QualIdx(shape))],
                        shape |-> shape]

\* ------------------------------------------------------ the trace_ray claims
\* C6: from a top-level call with depth kMaxRecursionDepth every recursive call
\* has depth one less than its caller, at most kMaxRecursionDepth + 1
\* activations are nested, and the depth never wraps below 0.
C6_DepthDecreases ==
    /\ Len(stack) <= kMaxRecursionDepth + 1
    /\ stack # <<>> => stack[1].depth = kMaxRecursionDepth
    /\ \A k \in 1 .. Len(stack) : stack[k].depth \in 0 .. kMaxRecursionDepth
    /\ \A k \in 2 .. Len(stack) : stack[k].depth = stack[k - 1].depth - 1

\* kMaxRecursionDepth + 1 activations are nested and the innermost has hit a
\* shape that is both reflective and transparent.
C6_Witness ==
    /\ Len(stack) = kMaxRecursionDepth + 1
    /\ Top.depth = 0
    /\ Top.pc = "reflect"
    /\ materials[Top.shape].reflectivity > 0
    /\ materials[Top.shape].transparency > 0

\* C7: an activation with depth 0 makes no recursive call, whatever the
\* reflectivity and the transparency of the material it hit.
C7_NoRecursionAtDepthZero ==
    /\ \A k \in 1 .. Len(stack) :
          stack[k].depth = 0 =>
              /\ stack[k].calls = 0
              /\ stack[k].pc \notin {"wait_reflect", "wait_transparent"}
              /\ k = Len(stack)
    /\ (last.valid /\ last.depth = 0) => last.calls = 0

\* An activation with depth 0 that hit a reflective and transparent shape has
\* returned its lit color.
C7_Witness ==
    /\ last.valid
    /\ last.depth = 0
    /\ last.lit = 1
    /\ materials[last.shape].reflectivity > 0
    /\ materials[last.shape].transparency > 0

\* C8: an activation whose ray has no root strictly inside (t_min, t_max)
\* returns the background color, white, whatever its depth, the lights and
\* the materials, and neither calls compute_lighting nor recurses.
C8_NoHitIsBackground ==
    (last.valid /\ ~last.in_range) =>
        /\ last.color = White
        /\ last.lit = 0
        /\ last.calls = 0

\* A recursive activation returned without a hit although shapes had roots,
\* outside its range, with every light in sight.
C8_Witness ==
    /\ last.valid
    /\ ~last.in_range
    /\ last.any_roots
    /\ last.depth = 1
    /\ last.color = White
    /\ lighting[2].rts = NoRoots
    /\ stack # <<>>

\* ------------------------------------------------- the compute_lighting claim
\* Some shape has a root strictly inside (kEpsilon, max_t) along the direction
\* of light k.
ShadowRoot(k) ==
    \E sh \in Shapes : \E j \in 1 .. Len(light_in[k].rts[sh]) :
        /\ light_in[k].rts[sh][j] > kEpsilon
        /\ light_in[k].rts[sh][j] <
               (IF kSceneLights[k].type = "directional" THEN Infinity ELSE One)

\* C11: a point or directional light with a shape's root inside
\* (kEpsilon, max_t) along its direction adds nothing to the intensity, and an
\* ambient light adds exactly its intensity, whatever the shapes' roots are.
C11_OccludedLightAddsNothing ==
    \A k \in 1 .. Len(added) :
        /\ kSceneLights[k].type = "ambient" => added[k] = kSceneLights[k].intensity
        /\ (kSceneLights[k].type # "ambient" /\ ShadowRoot(k)) => added[k] = 0

\* The call has returned: the point is in the shadow of a shape for the point
\* light, whose cosines would add diffuse and specular light, the ambient
\* light has roots along its input too, and the directional light is in sight.
C11_Witness ==
    /\ light_k = 0
    /\ Len(added) = Len(kSceneLights)
    /\ light_spec > 0
    /\ light_in[1].rts # NoRoots
    /\ ShadowRoot(2)
    /\ light_in[2].ndotd > 0
    /\ light_in[2].rdotr > 0
    /\ ~ShadowRoot(3)
    /\ added[3] > 0
    /\ light_sum_so_far = added[1] + added[2] + added[3]

\* ------------------------------------------------ the color arithmetic claims
\* C12: with reflectivity and transparency in [0, 1] and reflectivity +
\* transparency <= 1, every channel of local*(1-r-t) + reflected*r +
\* transparent*t is at most 255 before the lighting is applied: the sum the
\* activation computes is the sum of the channels as integers.
C12_BlendNeverSaturates ==
    (/\ blend_pc \in {"light", "done"}
     /\ blend_in.reflectivity + blend_in.transparency <= 100) =>
        /\ \A c \in 1 .. 3 : blend_loc.sum[c] <= 255
        /\ blend_loc.blend = blend_loc.sum

\* Three white colors with reflectivity 0.3 and transparency 0.6, both
\* recursive branches taken, are summed: the sum is just below 255.
C12_Witness ==
    /\ blend_pc = "light"
    /\ blend_in.recursion_depth > 0
    /\ blend_in.reflectivity = 30
    /\ blend_in.transparency = 60
    /\ blend_in.color = White
    /\ blend_in.reflected_color = White
    /\ blend_in.transparent_color = White
    /\ blend_loc.reflected_color_blend # NoColor
    /\ blend_loc.transparent_color_blend # NoColor
    /\ blend_loc.local_color_blend # NoColor
    /\ blend_loc.sum[1] >= 250

IsColor(c) == \A k \in 1 .. 3 : c[k] \in 0 .. 255

\* C13: every color the activation computes, and the color it returns, has
\* its channels in 0..255, also with reflectivity + transparency > 1 and with
\* a light intensity above 1; and it returns a color.
C13_ChannelsStayInRange ==
    /\ IsColor(blend_loc.reflected_color_blend)
    /\ IsColor(blend_loc.transparent_color_blend)
    /\ IsColor(blend_loc.local_color_blend)
    /\ IsColor(blend_loc.blend)
    /\ blend_pc = "done" => (Len(blend_out) = 1 /\ IsColor(blend_out[1]))

\* An activation returned with a negative local fraction on a material with
\* color, a sum above 255 and a light intensity above 1.
C13_Witness ==
    /\ blend_pc = "done"
    /\ local_fraction(blend_in.reflectivity, blend_in.transparency) < 0
    /\ blend_in.color = White
    /\ blend_loc.local_color_blend = NoColor
    /\ blend_loc.sum[1] > 255
    /\ blend_loc.blend = White
    /\ blend_in.light_intensity > 100
    /\ blend_out = <<White>>

\* --------------------------------------------- the calc_refraction_vector claim
cross(v, w) ==
    <<v[2] * w[3] - v[3] * w[2], v[3] * w[1] - v[1] * w[3], v[1] * w[2] - v[2] * w[1]>>

\* What the truncations of the arithmetic in thousandths may add up to.
RoundOff == Unit \div 500
Near(x, y) == x - y \in -RoundOff .. RoundOff

\* r is the mirror image of a across the unit vector n: the same component
\* along n, the opposite component across it; it points to the side of n that
\* a came from.
IsMirrored(r, a, n) ==
    /\ Near(udot(r, n), udot(a, n))
    /\ \A k \in 1 .. 3 : Near(trunc_div(cross(vadd(r, a), n)[k], Unit), 0)
    /\ udot(r, n) >= 0

ZeroDirection == ray.vector = NoVector
ParallelToPlane ==
    shape_object.kind = "plane" /\ dot(ray.vector, shape_object.normal) = 0
NegativeDiscriminant ==
    shape_object.kind = "sphere" /\ quadratic.discriminant < 0
Degenerate == ZeroDirection \/ ParallelToPlane \/ NegativeDiscriminant
Intersected == shape_pc \in {"search", "trace", "probed", "done"}
Searched == shape_pc \in {"trace", "probed", "done"}

\* C15 as claimed: a ray with no direction, a ray parallel to the plane and a
\* sphere's negative discriminant each make calc_ray_intersect return no root,
\* and the search then reports no hit.
C15_DegenerateIsEmpty ==
    /\ (Intersected /\ Degenerate) => intersect_points = <<>>
    /\ (Searched /\ Degenerate) => ~shape_intersect.hit

\* C15 as amended: for each of the three the search, closest or any, reports
\* no hit; the ray parallel to the plane and the negative discriminant give
\* no root, and the ray with no direction gives no root on the plane and the
\* pair (NaN, NaN) on a sphere, which fails every range test.
C15_DegenerateIsNoHit ==
    /\ (Intersected /\ (ParallelToPlane \/ NegativeDiscriminant)) =>
           intersect_points = <<>>
    /\ (Intersected /\ ZeroDirection /\ shape_object.kind = "sphere") =>
           intersect_points = <<NaN, NaN>>
    /\ (Searched /\ Degenerate) => ~shape_intersect.hit
    /\ (shape_pc = "done" /\ Degenerate) => shaded.color = <<White>>

\* The any-mode search of a sphere's roots for a ray with no direction has
\* returned.
C15_Witness ==
    /\ shape_pc = "probed"
    /\ ZeroDirection
    /\ shape_object.kind = "sphere"
    /\ quadratic.discriminant = 0
    /\ intersect_points = <<NaN, NaN>>
    /\ ~shape_intersect.hit

\* The scene of C16: the sphere at (0, 0, 3) of radius 1 in red, the ambient
\* light 0.2, the ray from the origin along (0, 0, 1), and a range of the
\* search that holds t = 2.
RedSphereScene ==
    /\ shape_object =
           [kind |-> "sphere", name |-> "sphere1", center |-> <<0, 0, 3>>, radius |-> 1]
    /\ ray = [point |-> <<0, 0, 0>>, vector |-> <<0, 0, 1>>]
    /\ lone_scene.ambient = 20
    /\ lone_scene.color = <<255, 0, 0>>
    /\ lone_scene.range[1] < 2 * One
    /\ lone_scene.range[2] > 2 * One

\* C16: in that scene trace_ray finds the hit at t = 2 with the normal
\* (0, 0, -1) and returns red scaled by 0.2, (51, 0, 0).
C16_RedSphereEndToEnd ==
    (RedSphereScene /\ shape_pc = "done") =>
        /\ shape_intersect = [hit |-> TRUE, t |-> 2 * One, shape |-> "sphere1"]
        /\ shaded.intersect_point = <<0, 0, 2 * Unit>>
        /\ shaded.normal = <<0, 0, -Unit>>
        /\ shaded.color = <<<<51, 0, 0>>>>

\* trace_ray has returned in that scene, searched over (0.75, max), the
\* sphere having returned the two roots 4 and 2.
C16_Witness ==
    /\ RedSphereScene
    /\ shape_pc = "done"
    /\ lone_scene.range = <<kViewportDepth, FloatMax>>
    /\ quadratic = [a |-> 1, b |-> -6, c |-> 8, discriminant |-> 4]
    /\ intersect_points = <<4 * One, 2 * One>>
    /\ shaded.color # <<>>

\* The plane of C17.
ScenePlane ==
    shape_object = [kind |-> "plane", name |-> "plane1", point |-> <<0, -1, 0>>,
                    normal |-> <<0, 1, 0>>]

\* C17: on the plane through (0, -1, 0) with normal (0, 1, 0) a ray whose
\* direction has no y-component gives no intersection from whatever point it
\* starts, and so does a ray whose t on the plane, (-1 - y) / direction y,
\* would be negative: the plane never returns a negative root.
C17_PlaneParallelOrBehind ==
    (ScenePlane /\ Intersected) =>
        /\ ray.vector[2] = 0 => intersect_points = <<>>
        /\ (/\ ray.vector[2] # 0
            /\ -1 - ray.point[2] # 0
            /\ (-1 - ray.point[2] < 0) # (ray.vector[2] < 0)) => intersect_points = <<>>
        /\ \A k \in 1 .. Len(intersect_points) : intersect_points[k] >= 0
        /\ (Searched /\ intersect_points = <<>>) => ~shape_intersect.hit

\* trace_ray has returned the background for the ray from (0, -3, 5), below
\* the plane, along (1, 0, 1).
C17_Witness ==
    /\ ScenePlane
    /\ shape_pc = "done"
    /\ ray = [point |-> <<0, -3, 5>>, vector |-> <<1, 0, 1>>]
    /\ intersect_points = <<>>
    /\ shaded.color = <<White>>

\* a, b, c of the quadratic, written out for the ray and the sphere.
QuadA == ray.vector[1] * ray.vector[1] + ray.vector[2] * ray.vector[2]
             + ray.vector[3] * ray.vector[3]
QuadB == 2 * ((ray.point[1] - shape_object.center[1]) * ray.vector[1]
              + (ray.point[2] - shape_object.center[2]) * ray.vector[2]
              + (ray.point[3] - shape_object.center[3]) * ray.vector[3])
QuadC == (ray.point[1] - shape_object.center[1]) * (ray.point[1] - shape_object.center[1])
         + (ray.point[2] - shape_object.center[2]) * (ray.point[2] - shape_object.center[2])
         + (ray.point[3] - shape_object.center[3]) * (ray.point[3] - shape_object.center[3])
         - shape_object.radius * shape_object.radius
QuadDisc == QuadB * QuadB - 4 * QuadA * QuadC

\* t1 >= t2 are the two roots of the quadratic, up to the truncation of the
\* millionths: their sum is -b / a and their difference sqrt(disc) / a.
AreBothRoots(t1, t2) ==
    LET d == (QuadA * (t1 - t2)) \div 10000
    IN /\ t1 >= t2
       /\ QuadA * (t1 + t2) + QuadB * One \in -(2 * QuadA) .. 2 * QuadA
       /\ d * d <= QuadDisc * 10000
       /\ (d + 2) * (d + 2) > QuadDisc * 10000

\* C18: the sphere returns no roots exactly when b^2 - 4ac < 0, and otherwise
\* the two roots (-b +/- sqrt(disc)) / 2a, two equal values when disc = 0.
C18_SphereRoots ==
    (shape_object.kind = "sphere" /\ Intersected) =>
        /\ quadratic = [a |-> QuadA, b |-> QuadB, c |-> QuadC, discriminant |-> QuadDisc]
        /\ intersect_points = <<>> <=> QuadDisc < 0
        /\ QuadDisc >= 0 => Len(intersect_points) = 2
        /\ (QuadDisc >= 0 /\ QuadA # 0) =>
               AreBothRoots(intersect_points[1], intersect_points[2])
        /\ (QuadDisc = 0 /\ QuadA # 0) => intersect_points[1] = intersect_points[2]

\* The ray from (0, 1, 0) along (0, 0, 1) touches the sphere at (0, 0, 3): the
\* sphere has returned t = 3 twice.
C18_Witness ==
    /\ shape_pc = "search"
    /\ shape_object.kind = "sphere"
    /\ shape_object.center = <<0, 0, 3>>
    /\ ray = [point |-> <<0, 1, 0>>, vector |-> <<0, 0, 1>>]
    /\ quadratic.discriminant = 0
    /\ intersect_points = <<3 * One, 3 * One>>

\* ------------------------------------------------------- the camera claims
\* A press of the space key, as main sees it: isKeyPressed at this iteration
\* of the loop, and not at the one before.
PressSeen == pc = "loop" /\ space_pressed' /\ ~space_pressed_prev
InUpdateCanvas == pc \in PassPcs

\* The pixels in image_ are those update_cols traces with the active camera.
TracedWithActiveCamera ==
    \A c \in Coords :
        image[put_pixel(c[1], c[2])] = PixelColor(camera_iter, c[1], c[2])

PassInProgress == InUpdateCanvas \/ \E i \in Workers : threads[i].st = "run"

\* C20: a step taken during a render pass changes neither the active camera
\* nor the canvas dimensions, the worker count, the window or the key state
\* (the shapes, lights, materials and cameras are constants); it changes
\* image_, texture_ and the pass's own bookkeeping only, and every pixel the
\* pass has written is traced with the one active camera.
C20_PassLeavesSceneAlone ==
    [][/\ PassInProgress =>
            UNCHANGED <<camera_iter, kCanvasWidth, kCanvasHeight, kNumThreads,
                        windowOpen, space_pressed, space_pressed_prev, shown, retTo,
                        pass>>
       /\ \A c \in Coords :
             stamp'[put_pixel(c[1], c[2])] = pass' =>
                 image'[put_pixel(c[1], c[2])] = PixelColor(camera_iter', c[1], c[2])
      ]_vars

\* The pass of the second camera is at its snapshot, two workers having
\* written its pixels.
C20_Witness ==
    /\ pc = "snapshot"
    /\ camera_iter = 1
    /\ kNumThreads = 2
    /\ Coords # {}
    /\ \A c \in Coords : stamp[put_pixel(c[1], c[2])] = pass
    /\ TracedWithActiveCamera

\* ------------------------------------------------ the claims of a whole pass
\* update_canvas has joined its workers: the pass's put_pixel calls are over.
PassEnded == pass >= 1 /\ pc \in {"snapshot", "loop", "after_update", "exit"}

\* The put_pixel calls of the pass that wrote image pixel p.
WritesTo(p) == {c \in DOMAIN log : put_pixel(c[1], c[2]) = p}

EvenCanvas == kCanvasWidth % 2 = 0 /\ kCanvasHeight % 2 = 0

\* C21: when a pass ends the workers hold the segment indices 0..N-1, one
\* each; every (x, y) of a worker's column range and of [-H/2, H/2) was passed
\* to put_pixel once, by that worker; and on a canvas of even width and height
\* (the program's is 800 x 600) every pixel of the canvas was written exactly
\* once in the pass.
C21_EveryPixelOnce ==
    PassEnded =>
        /\ \A i, j \in Workers : i # j => threads[i].seg # threads[j].seg
        /\ {threads[i].seg : i \in Workers} = 0 .. kNumThreads - 1
        /\ DOMAIN log = Coords
        /\ \A c \in DOMAIN log :
              /\ Len(log[c]) = 1
              /\ c[1] \in Range(threads[log[c][1]].seg)
        /\ EvenCanvas =>
              \A p \in Pixels : Cardinality(WritesTo(p)) = 1 /\ stamp[p] = pass

\* A pass of three workers over a 2 x 2 canvas has ended, the second of the
\* run.
C21_Witness ==
    /\ PassEnded
    /\ pass = 2
    /\ kCanvasWidth = 2
    /\ kCanvasHeight = 2
    /\ kNumThreads = 3
    /\ \A p \in Pixels : stamp[p] = 2

\* C22: whatever the interleaving of the workers, the image a pass leaves is
\* the image the sequential fill over x in [-W/2, W/2), y in [-H/2, H/2) makes
\* of the image the pass started from (which the texture still holds when the
\* workers are joined) with the pass's camera, and the snapshot shows it.
C22_SameAsSequential ==
    /\ pc = "snapshot" => image = update_canvas_sequential(texture, camera_iter)
    /\ (pass >= 1 /\ pc \in {"loop", "after_update", "exit"}) =>
          texture = update_canvas_sequential(texture, camera_iter)

\* The workers of the pass of a key press, three over three columns, are
\* joined, and the image differs from the one the pass started from.
C22_Witness ==
    /\ pc = "snapshot"
    /\ pass = 2
    /\ camera_iter = 1
    /\ kNumThreads = 3
    /\ kCanvasWidth = 3
    /\ kCanvasHeight = 2
    /\ image # texture

\* C26: every (x, y) the render loops produce names a pixel inside the image,
\* two different (x, y) name two different pixels, x = -W/2 names column 0,
\* y = H/2 - 1 names row 0 and y = -H/2 names the last row written, which on a
\* canvas of even height is row H - 1; and every put_pixel call made so far
\* wrote inside the image.
C26_PutPixelInsideImage ==
    /\ \A c \in Coords : put_pixel(c[1], c[2]) \in Pixels
    /\ \A c, d \in Coords : c # d => put_pixel(c[1], c[2]) # put_pixel(d[1], d[2])
    /\ \A c \in Coords :
          /\ c[1] = -(kCanvasWidth \div 2) => put_pixel(c[1], c[2])[1] = 0
          /\ c[2] = (kCanvasHeight \div 2) - 1 => put_pixel(c[1], c[2])[2] = 0
          /\ c[2] = -(kCanvasHeight \div 2) =>
                /\ put_pixel(c[1], c[2])[2] = 2 * (kCanvasHeight \div 2) - 1
                /\ kCanvasHeight % 2 = 0 => put_pixel(c[1], c[2])[2] = kCanvasHeight - 1
    /\ \A c \in DOMAIN log :
          /\ put_pixel(c[1], c[2]) \in Pixels
          /\ stamp[put_pixel(c[1], c[2])] = pass

\* The first pass has put the top and the bottom pixel of the first column of
\* a canvas two rows high, and not yet the second column.
C26_Witness ==
    /\ pass = 1
    /\ kCanvasWidth = 2
    /\ kCanvasHeight = 2
    /\ DOMAIN log = {<<-1, 0>>, <<-1, -1>>}
    /\ stamp[<<0, 0>>] = 1
    /\ stamp[<<0, 1>>] = 1

\* C28: after the first pass the camera advances and a pass starts only in a
\* loop iteration of main that finds space pressed and found it not pressed
\* the iteration before; an iteration that follows one with the key pressed
\* neither advances the camera nor starts a pass.
C28_EdgeTriggered ==
    [][/\ (pc # "start" /\ (camera_iter' # camera_iter \/ pass' # pass)) =>
             /\ pc = "loop"
             /\ space_pressed'
             /\ ~space_pressed_prev
             /\ camera_iter' = next_camera(camera_iter)
             /\ pass' = pass + 1
       /\ (pc = "loop" /\ space_pressed_prev) =>
             /\ camera_iter' = camera_iter
             /\ pass' = pass
             /\ pc' \in {"loop", "exit"}]_vars

\* The pass of a key press is over, its frame is drawn, and main is back at
\* the top of its loop with the key still down.
C28_Witness ==
    /\ pc = "loop"
    /\ pass = 2
    /\ camera_iter = 1
    /\ space_pressed_prev
    /\ windowOpen
    /\ shown # <<>>
    /\ \A p \in Written : shown[1][p] = 2

\* ------------------------------------------------- the two search modes
\* What the call that returned would have returned in the other mode.
OtherMode == calc_ray_shape_intersect(~find_closest, roots, t_min, t_max)
ClosestHit == IF find_closest THEN result ELSE OtherMode
AnyHit == IF find_closest THEN OtherMode ELSE result

\* C27: for the same roots and the same range the any-mode search returns a
\* hit exactly when the closest-mode search does, and then the t it reports
\* is at least the t closest mode reports.
C27_AnyHitsIffClosestHits ==
    scan.pc = "done" =>
        /\ AnyHit.hit <=> ClosestHit.hit
        /\ AnyHit.hit => AnyHit.t >= ClosestHit.t

\* An any-mode call returned a hit farther than the closest one, on another
\* shape.
C27_Witness ==
    /\ scan.pc = "done"
    /\ ~find_closest
    /\ result.hit
    /\ ClosestHit.hit
    /\ result.t > ClosestHit.t
    /\ result.shape # ClosestHit.shape

\* ------------------------------------------------------ the shadow range
\* Every root of every shape along the direction of light k is at or before
\* kEpsilon or, for the point light, at or beyond the light's position.
OutsideShadowRange(k) ==
    \A sh \in Shapes : \A j \in 1 .. Len(light_in[k].rts[sh]) :
        \/ light_in[k].rts[sh][j] <= kEpsilon
        \/ kSceneLights[k].type = "point" /\ light_in[k].rts[sh][j] >= One

\* The diffuse and the specular term of light k at the point, in sight.
DiffuseTerm(k) ==
    IF light_in[k].ndotd > 0
    THEN (kSceneLights[k].intensity * light_in[k].ndotd) \div 100
    ELSE 0

SpecularTerm(k) ==
    IF light_spec > 0 /\ light_in[k].rdotr > 0
    THEN (kSceneLights[k].intensity * light_in[k].spec_pow) \div 100
    ELSE 0

\* C24: a point or directional light whose shapes' roots are all at or before
\* kEpsilon or, for the point light, at or beyond t = 1 adds its full diffuse
\* and specular terms; the directional light is suppressed by a root beyond
\* t = 1 too.
C24_ShadowRangeIsOpen ==
    \A k \in 1 .. Len(added) :
        /\ (kSceneLights[k].type # "ambient" /\ OutsideShadowRange(k)) =>
              added[k] = DiffuseTerm(k) + SpecularTerm(k)
        /\ (kSceneLights[k].type = "directional"
               /\ \E sh \in Shapes : \E j \in 1 .. Len(light_in[k].rts[sh]) :
                      light_in[k].rts[sh][j] >= One) =>
              added[k] = 0

\* The call has returned: along the point light a shape has a root at kEpsilon
\* and another at the light itself, along the directional light a shape has
\* roots beyond t = 1; the point light added diffuse and specular light, the
\* directional light nothing.
C24_Witness ==
    /\ light_k = 0
    /\ Len(added) = Len(kSceneLights)
    /\ light_spec > 0
    /\ light_in[2].rts = [NoRoots EXCEPT !["sphere1"] = <<kEpsilon, 0>>,
                                          !["plane1"] = <<One>>]
    /\ light_in[2].ndotd > 0
    /\ light_in[2].rdotr > 0
    /\ added[2] = DiffuseTerm(2) + SpecularTerm(2)
    /\ added[2] > DiffuseTerm(2)
    /\ DiffuseTerm(2) > 0
    /\ light_in[3].rts = [NoRoots EXCEPT !["sphere2"] = <<3 * One, 2 * One>>]
    /\ light_in[3].ndotd > 0
    /\ added[3] = 0

\* ------------------------------------------- the lighting of an activation
\* The top activation returns in this step.
Returns == stack # <<>> /\ Len(stack') = Len(stack) - 1

\* The color the top activation, all its recursive calls returned, owes its
\* caller: the sum of its three weighted colors, scaled as a whole by the one
\* intensity compute_lighting gives at its point.
WholeBlendLit ==
    LET m == materials[Top.shape]
        local == scale_color(m.color, 100 - m.reflectivity - m.transparency)
        sum == add_color(add_color(local, Top.reflected_color_blend),
                         Top.transparent_color_blend)
    IN scale_color(sum, compute_lighting(lighting, materials[Top.shape].specularity))

\* C23: an activation calls compute_lighting only as it returns: once when it
\* hit a shape, with no recursive call of it pending, the intensity applied to
\* the sum of the local, the reflected and the transparent color; not at all
\* without a hit. The color a recursive call returns, lit at its own level, is
\* what its caller weighs into its own sum, which the caller's intensity then
\* scales again.
C23_LitOncePerHit ==
    [][/\ Returns =>
             /\ Top.pc \in {"search", "blend"}
             /\ last'.lit = (IF Top.pc = "blend" THEN 1 ELSE 0)
             /\ last'.lits = Top.lits + last'.lit
             /\ Top.pc = "blend" <=> last'.in_range
             /\ Top.pc = "blend" => last'.color = WholeBlendLit
             /\ Top.pc = "search" => last'.color = White
             /\ Len(stack) >= 2 =>
                   LET caller == stack[Len(stack) - 1]
                       resumed == stack'[Len(stack')]
                       m == materials[caller.shape]
                   IN /\ caller.pc = "wait_reflect" =>
                            /\ resumed.pc = "transparent"
                            /\ resumed.reflected_color_blend =
                                   scale_color(last'.color, m.reflectivity)
                      /\ caller.pc = "wait_transparent" =>
                            /\ resumed.pc = "blend"
                            /\ resumed.transparent_color_blend =
                                   scale_color(last'.color, m.transparency)
       /\ ~Returns => last' = last]_vars

\* A recursive call that hit a shape returned its lit color, neither black
\* nor white, to a caller waiting for its reflected color under a light that
\* is not 100 %; the caller has weighed it.
C23_Witness ==
    /\ last.valid
    /\ last.lit = 1
    /\ last.depth = kMaxRecursionDepth - 1
    /\ last.color \notin {NoColor, White}
    /\ compute_lighting(lighting, materials[last.shape].specularity) # 100
    /\ stack # <<>>
    /\ Top.pc = "transparent"
    /\ Top.reflected_color_blend =
           scale_color(last.color, materials[Top.shape].reflectivity)
    /\ Top.reflected_color_blend # NoColor

\* ------------------------------------------- the range of a recursive ray
\* C25: the top-level call has t_min = kViewportDepth > 0; every recursive
\* call has t_max = infinity and a t_min above 0, kEpsilon times the caller's
\* hit for the reflected ray and kEpsilon for the transmitted ray; and the t
\* an activation accepts as its hit is above its t_min, so never the root 0
\* at the point its ray starts from.
C25_RecursiveRangeAboveZero ==
    /\ stack # <<>> => stack[1].tmin = kViewportDepth /\ stack[1].tmin > 0
    /\ \A k \in 2 .. Len(stack) :
          /\ stack[k].tmin > 0
          /\ stack[k].tmax = Infinity
          /\ stack[k - 1].pc \in {"wait_reflect", "wait_transparent"}
          /\ stack[k - 1].pc = "wait_reflect" =>
                stack[k].tmin = (kEpsilon * stack[k - 1].t) \div One
          /\ stack[k - 1].pc = "wait_transparent" => stack[k].tmin = kEpsilon
    /\ \A k \in 1 .. Len(stack) :
          stack[k].pc # "search" => stack[k].t > stack[k].tmin /\ stack[k].t > 0
    /\ last.valid =>
          /\ last.tmin > 0
          /\ last.in_range => last.t > last.tmin

\* Three activations are nested: the reflected ray of a hit at t = 1, then its
\* transmitted ray, which passed over sphere1's root 0 at its own starting
\* point and hit sphere1 at t = 2.
C25_Witness ==
    /\ Len(stack) = 3
    /\ stack[1].pc = "wait_reflect"
    /\ stack[1].t = One
    /\ stack[2].tmin = kEpsilon
    /\ stack[2].pc = "wait_transparent"
    /\ stack[3].tmin = kEpsilon
    /\ stack[3].pc = "reflect"
    /\ stack[3].shape = "sphere1"
    /\ stack[3].t = 2 * One

\* ------------------------------------------------- the size of a call tree
\* The activations of a full binary tree of height d.
ActivationBound(d) == 2^(d + 1) - 1

WithinBound(a) ==
    /\ a.depth \in 0 .. kMaxRecursionDepth
    /\ a.calls <= 2
    /\ a.size <= ActivationBound(a.depth)
    /\ a.lits <= a.size

\* The steps an activation still has to take, its recursive calls not yet made
\* included: four of its own (search, reflective branch, transparent branch,
\* blend) and those of up to two recursive calls of depth one less.
ChildSteps(d) == IF d = 0 THEN 0 ELSE 4 * ActivationBound(d - 1)

StepsLeft(a) ==
    CASE a.pc = "search" -> 4 + 2 * ChildSteps(a.depth)
      [] a.pc = "reflect" -> 3 + 2 * ChildSteps(a.depth)
      [] a.pc = "wait_reflect" -> 2 + ChildSteps(a.depth)
      [] a.pc = "transparent" -> 2 + ChildSteps(a.depth)
      [] a.pc = "wait_transparent" -> 1
      [] a.pc = "blend" -> 1

RECURSIVE Variant(_)
Variant(stk) == IF stk = <<>> THEN 0 ELSE StepsLeft(Head(stk)) + Variant(Tail(stk))

\* C29: every activation makes at most two recursive calls; an activation of
\* depth d has, with the recursive calls of it that returned, at most
\* 2^(d+1) - 1 activations and at most as many compute_lighting calls as
\* activations; and the top-level call terminates: the innermost activation
\* is always at a position from which it steps, the others wait for the call
\* they made, and every step lowers the number of steps the nested
\* activations can still take, which is never negative.
C29_CallTreeBounded ==
    /\ [](/\ stack # <<>> => Top.pc \in {"search", "reflect", "transparent", "blend"}
          /\ \A k \in 1 .. Len(stack) - 1 :
                stack[k].pc \in {"wait_reflect", "wait_transparent"})
    /\ [][/\ \A k \in 1 .. Len(stack') : WithinBound(stack'[k])
          /\ WithinBound(last')
          /\ returned' # <<>> =>
                /\ stack' = <<>>
                /\ last'.depth = kMaxRecursionDepth
                /\ last'.size <= ActivationBound(kMaxRecursionDepth)
          /\ Variant(stack') < Variant(stack)
          /\ Variant(stack') >= 0]_vars

\* The top-level call returned after a full tree of activations, each of
\* which hit a shape and called compute_lighting.
C29_Witness ==
    /\ returned # <<>>
    /\ last.depth = kMaxRecursionDepth
    /\ last.calls = 2
    /\ last.size = ActivationBound(kMaxRecursionDepth)
    /\ last.lits = last.size

\* ------------------------------------------ entering and exiting rays
\* The ray enters the shape: it runs against the normal.
Entering == dot(refr_in.normal, refr_in.incoming) < 0

\* C30: with refractivity > 0, a ray that enters the shape has a ratio below
\* 1 and a radicand that is not negative, and the call returns a vector that
\* goes on through the surface, away from the side the ray came from; so a
\* negative radicand, and with it the reflected vector, comes only with a ray
\* that leaves the shape, whose ratio 1 + refractivity is above 1.
C30_OnlyExitingRaysReflect ==
    (refr_pc \in {"radicand", "done"} /\ refr_in.refractivity > 0) =>
        /\ refr_loc.entering_shape <=> Entering
        /\ Entering =>
              /\ refr_loc.refractive_ratio < Unit
              /\ refr_loc.in_radical >= 0
              /\ refr_pc = "done" => udot(refr_out[1], refr_loc.normal_unit) < 0
        /\ refr_loc.in_radical < 0 =>
              /\ ~Entering
              /\ refr_loc.refractive_ratio = Unit + refr_in.refractivity
              /\ refr_loc.refractive_ratio > Unit
              /\ refr_pc = "done" => udot(refr_out[1], refr_loc.normal_unit) >= 0

\* The ray (24, -7, 0) enters through the surface of normal (0, 1, 0) at a
\* cosine of 0.28 with refractivity 3.0: the radicand is positive and the
\* call has returned a vector into the shape.
C30_Witness ==
    /\ refr_pc = "done"
    /\ refr_in = [incoming |-> <<24, -7, 0>>, normal |-> <<0, 1, 0>>,
                  refractivity |-> 3000]
    /\ refr_loc.entering_shape
    /\ refr_loc.normal_dot_arrival = 280
    /\ refr_loc.in_radical > 0
    /\ refr_out[1][2] < 0
====
